---- MODULE Spec2Model ----
(***************************************************************************)
(* State-machine model of the orchestration core of src/main.py:           *)
(* EventRouter (priority queue, subscribers, dispatch loop),               *)
(* WorkflowCoordinator (saga execution with rollback) and the              *)
(* OrchestratorEngine's six-step mission workflow.                         *)
(***************************************************************************)
EXTENDS Integers, Sequences, FiniteSets, TLC

\* ------------------------------------------------------------------------
\* Bounds of the model
\* ------------------------------------------------------------------------
\* events created in the router specification
MaxEvents == 2
\* events created in the queue specification
MaxQueueEvents == 7
\* largest timestamp an external publisher puts on an event (router spec)
MaxTs == 2
\* largest timestamp in the queue specification
MaxQueueTs == 2
\* events published, and largest timestamp, beside the fair dispatch loop
MaxFairEvents == 3
MaxFairTs == 2
\* survey grids: largest side of the bounding box of the area of interest,
\* largest grid spacing, and the number of steps in which the overlap goes
\* from 0 to 1; lengths are counted in 1/OverlapSteps of a spacing unit
MaxGridSize == 2
MaxGridSpacing == 2
OverlapSteps == 2
\* subscribe calls
MaxSubs == 2
\* error observers registered
MaxObservers == 2
\* dispatch threads ever started
MaxThreads == 1
\* workflows created
MaxWorkflows == 2
\* steps of a workflow
MaxSteps == 3
\* execute_workflow calls
MaxTasks == 2
\* largest reading of the clock
MaxTime == 1
\* the grid of points of the point-in-polygon specification
GridMargin == 2
GridMax == 15
\* battery levels (percent), path lengths and ranges (km) of the battery
\* validation specification
MaxBattery == 100
MaxDistance == 5
MinRange == 5
MaxRange == 6
\* arguments of create_structure_scan
MaxOrbits == 8
MaxPointsPerOrbit == 2
MaxAltitudeMin == 1
MaxAltitudeRange == 30
\* steps of a workflow that runs beside the dispatch loop
MaxLoopSteps == 2
\* start calls on an EventRouter of its own, and subscribe calls on it
MaxLoops == 2
MaxLoopSubs == 2
\* threads calling the State Store at the same time, one call each
MaxStoreThreads == 2
\* calls a client of the State Store makes with arguments of its choice, and
\* the set calls it makes in all, the later ones repeating one set
MaxStoreCalls == 2
MaxSets == 102
\* waypoints of a mission and events created in the mission validation
\* specification
MaxWaypoints == 2
MaxPlanEvents == 4
\* calls of validate_mission in one run of the mission validation
\* specification
MaxValidations == 1
\* events created and clock readings in the registry specification
MaxRegEvents == 3
MaxRegTime == 1
\* events created in the geofencing specification
MaxGeoEvents == 2
\* largest reading of the clock in the geofencing specification
MaxGeoTime == 1
\* vehicles registered
MaxVehicles == 2
\* missions planned
MaxMissions == 2
\* mission workflows executed
MaxRuns == 2
\* largest reading of the clock in the mission specification
MaxMissionTime == 3

\* ------------------------------------------------------------------------
\* Program constants
\* ------------------------------------------------------------------------
\* EventPriority values
CRITICAL == 1
HIGH == 2
MEDIUM == 3
LOW == 4
INFO == 5
\* deque(maxlen=1000)
HistoryMax == 1000

Priorities == {CRITICAL, HIGH, MEDIUM, LOW, INFO}

\* handlers the engine subscribes at construction
EngineHandlers == {"_handle_vehicle_event", "_handle_any_event",
                   "_handle_breach", "_handle_mission_event"}
\* handlers of external subscribers: one that returns, one that raises
UserHandlers == {"hOk", "hBad"}
\* error observers: one that returns, one that raises
Observers == {"oOk", "oBad"}
UserTypes == {"user.a", "user.b"}
WILDCARD == "*"

\* a handler call raises
Throws(h) == h = "hBad"
\* an error observer call raises
ObserverThrows(o) == o = "oBad"

VARIABLES
    \* ---- EventRouter
    events,          \* every Event object created: id |-> [type, priority, timestamp, processed, data]
    event_queue,     \* PriorityQueue.queue: heap array of <<priority, timestamp, id>>
    event_history,   \* deque of event ids
    subscribers,     \* event type |-> list of handlers (only the keys that exist)
    error_handlers,  \* list of error observers
    running,         \* EventRouter.running
    threads,         \* dispatch threads: [pc, ev, ref, fresh, idx]
    \* ---- observation of the router's calls
    delivered,       \* event id |-> handlers invoked for it, in order
    dispatched,      \* event ids in the order _dispatch_event was called
    errlog,          \* one entry per _handle_error call: [src, ev, notified]
    publish_raised,  \* the last publish call raised to its caller
    nsubs,           \* subscribe calls made after construction
    registered,      \* event type |-> handlers in the order subscribe was called
    \* ---- GlobalStateManager
    state,           \* the state tree: [system, workflows, vehicles, missions, geofences]
    \* ---- WorkflowCoordinator
    now,             \* the reading of datetime.now()
    workflows,       \* workflow id |-> [status, steps, context, mission, vehicle]
    tasks,           \* execute_workflow calls: [wid, pc, i, completed, j, ...]
    active,          \* the call the event loop is running, 0 when it runs none
    \* ---- OrchestratorEngine
    vehicles,        \* VehicleManagerModule.vehicles: id |-> [status, mission_id]
    missions,        \* OrchestratorEngine.missions: id |-> [status, vehicle_id, profile]
    \* ---- GeofencingEngine
    zones,           \* GeofencingEngine.zones, in insertion order: [id, type, polygon, ...]
    spatial_index,   \* zone id |-> bounding box
    \* ---- GlobalStateManager as the clients of its own methods see it
    objects,         \* the dict objects by identity: id |-> (key |-> value); 1 is self.state
    state_history,   \* deque of audit entries [key, old_value, new_value, n]
    state_lock,      \* the thread holding state_lock, 0 when it is free
    calls,           \* store calls of concurrent threads: [op, pc, key, updates, current]
    \* ---- the last call made by a client
    ret              \* [op, arguments, what the call found, what it returned]

routerVars == <<events, event_queue, event_history, subscribers, error_handlers,
                running, threads, delivered, dispatched, errlog, publish_raised, nsubs,
                registered>>

wfVars == <<now, workflows, tasks, active>>

geoVars == <<zones, spatial_index, ret>>

engVars == <<vehicles, missions, geoVars>>

storeVars == <<objects, state_history, state_lock, calls>>

vars == <<routerVars, state, storeVars, wfVars, engVars>>

\* ------------------------------------------------------------------------
\* PriorityQueue: heapq on tuples (priority.value, timestamp, event)
\* ------------------------------------------------------------------------
\* tuple comparison a < b; Event defines no ordering, so a tie on priority
\* and timestamp between two different events raises TypeError
Cmp(a, b) ==
    IF a[1] # b[1] THEN (IF a[1] < b[1] THEN "lt" ELSE "ge")
    ELSE IF a[2] # b[2] THEN (IF a[2] < b[2] THEN "lt" ELSE "ge")
    ELSE IF a[3] = b[3] THEN "ge"
    ELSE "err"

Swap(h, i, j) == [h EXCEPT ![i] = h[j], ![j] = h[i]]

\* heapq siftdown: positions are 0-based, the sequence is 1-based
RECURSIVE SiftDown(_, _, _)
SiftDown(h, startpos, pos) ==
    IF pos > startpos
    THEN LET parentpos == (pos - 1) \div 2
             c == Cmp(h[pos + 1], h[parentpos + 1])
         IN  IF c = "err" THEN [heap |-> h, err |-> TRUE]
             ELSE IF c = "ge" THEN [heap |-> h, err |-> FALSE]
             ELSE SiftDown(Swap(h, pos + 1, parentpos + 1), startpos, parentpos)
    ELSE [heap |-> h, err |-> FALSE]

\* heapq siftup: bubble the smaller child up to a leaf, then sift down
RECURSIVE SiftUp(_, _, _)
SiftUp(h, startpos, pos) ==
    LET endpos == Len(h)
        limit == endpos \div 2
    IN  IF pos < limit
        THEN LET left == 2 * pos + 1
                 c == IF left + 1 < endpos
                      THEN Cmp(h[left + 1], h[left + 2])
                      ELSE "lt"
                 childpos == IF c = "ge" THEN left + 1 ELSE left
             IN  IF c = "err" THEN [heap |-> h, err |-> TRUE]
                 ELSE SiftUp(Swap(h, childpos + 1, pos + 1), startpos, childpos)
        ELSE SiftDown(h, startpos, pos)

\* heappush: the item is appended before it is sifted, so it stays in the
\* list when a comparison raises
HeapPush(h, item) == SiftDown(Append(h, item), 0, Len(h))

\* heappop: [heap, err, item]; when a comparison raises the root item has
\* already been replaced by the last one and is returned to nobody
HeapPop(h) ==
    LET n == Len(h)
        lastelt == h[n]
        rest == SubSeq(h, 1, n - 1)
    IN  IF n = 1 THEN [heap |-> rest, err |-> FALSE, item |-> lastelt]
        ELSE LET r == SiftUp([rest EXCEPT ![1] = lastelt], 0, 0)
             IN  [heap |-> r.heap, err |-> r.err, item |-> rest[1]]

\* ------------------------------------------------------------------------
\* EventRouter
\* ------------------------------------------------------------------------
\* the router as a publisher sees it
RouterOf(evs, q, hist) == [events |-> evs, event_queue |-> q, event_history |-> hist,
                           raised |-> FALSE]

\* EventRouter.publish on router r of a new Event(type, priority, timestamp):
\* put on the queue, then append to the bounded history; a put that raises
\* leaves the item in the heap and skips the history
PublishData(r, type, priority, timestamp, data) ==
    LET id == Len(r.events) + 1
        ev == [type |-> type, priority |-> priority, timestamp |-> timestamp,
               processed |-> FALSE, data |-> data]
        p == HeapPush(r.event_queue, <<priority, timestamp, id>>)
        hist == Append(r.event_history, id)
    IN  IF r.raised THEN r
        ELSE IF p.err
        THEN [events |-> Append(r.events, ev), event_queue |-> p.heap,
              event_history |-> r.event_history, raised |-> TRUE]
        ELSE [events |-> Append(r.events, ev), event_queue |-> p.heap,
              event_history |-> IF Len(hist) > HistoryMax THEN Tail(hist) ELSE hist,
              raised |-> FALSE]

\* publish of an event whose payload the model does not read
PublishOn(r, type, priority, timestamp) == PublishData(r, type, priority, timestamp, <<>>)

\* _handle_error: every observer is called, a raising observer is logged
RECURSIVE HandleErrorStop(_, _)
HandleErrorStop(obs, i) ==
    IF i > Len(obs) THEN <<>>
    ELSE IF ObserverThrows(obs[i]) THEN <<obs[i]>>
    ELSE <<obs[i]>> \o HandleErrorStop(obs, i + 1)

RECURSIVE HandleError(_, _)
HandleError(obs, i) ==
    IF i > Len(obs) THEN <<>>
    ELSE <<obs[i]>> \o HandleError(obs, i + 1)

\* subscribers.get('*', [])
WildList == IF WILDCARD \in DOMAIN subscribers THEN subscribers[WILDCARD] ELSE <<>>

\* the list a dispatching thread iterates: the subscribers' own list of the
\* event type when that key exists, else a list of its own
HandlersOf(th) == IF th.ref = "" THEN th.fresh ELSE subscribers[th.ref]

IdleThread == [pc |-> "loop", ev |-> 0, ref |-> "", fresh |-> <<>>, idx |-> 0]

\* EventRouter.subscribe
Subscribe(t, h) ==
    /\ nsubs < MaxSubs
    /\ nsubs' = nsubs + 1
    /\ subscribers' = IF t \in DOMAIN subscribers
                      THEN [subscribers EXCEPT ![t] = Append(@, h)]
                      ELSE subscribers @@ (t :> <<h>>)
    /\ registered' = IF t \in DOMAIN registered
                     THEN [registered EXCEPT ![t] = Append(@, h)]
                     ELSE registered @@ (t :> <<h>>)
    /\ UNCHANGED <<events, event_queue, event_history, error_handlers, running,
                   threads, delivered, dispatched, errlog, publish_raised, state, storeVars>>
    /\ UNCHANGED <<wfVars, engVars>>

\* error_handlers.append(observer)
AddErrorHandler(o) ==
    /\ Len(error_handlers) < MaxObservers
    /\ error_handlers' = Append(error_handlers, o)
    /\ UNCHANGED <<events, event_queue, event_history, subscribers, running,
                   threads, delivered, dispatched, errlog, publish_raised, nsubs, registered, state, storeVars>>
    /\ UNCHANGED <<wfVars, engVars>>

\* EventRouter.publish called by an external publisher
Publish(type, priority, timestamp) ==
    LET r == PublishOn(RouterOf(events, event_queue, event_history),
                       type, priority, timestamp)
    IN  /\ events' = r.events
        /\ event_queue' = r.event_queue
        /\ event_history' = r.event_history
        /\ publish_raised' = r.raised
        /\ delivered' = Append(delivered, <<>>)
        /\ UNCHANGED <<subscribers, error_handlers, running, threads, dispatched,
                       errlog, nsubs, registered, state, storeVars>>
        /\ UNCHANGED <<wfVars, engVars>>

\* EventRouter.start: a new dispatch thread on every call, n calls at most
StartUpTo(n) ==
    /\ Len(threads) < n
    /\ running' = TRUE
    /\ threads' = Append(threads, IdleThread)
    /\ UNCHANGED <<events, event_queue, event_history, subscribers, error_handlers,
                   delivered, dispatched, errlog, publish_raised, nsubs, registered, state, storeVars>>
    /\ UNCHANGED <<wfVars, engVars>>

Start == StartUpTo(MaxThreads)

\* EventRouter.stop
Stop ==
    /\ running
    /\ running' = FALSE
    /\ UNCHANGED <<events, event_queue, event_history, subscribers, error_handlers,
                   threads, delivered, dispatched, errlog, publish_raised, nsubs, registered, state, storeVars>>
    /\ UNCHANGED <<wfVars, engVars>>

\* _process_events: the loop test and the empty() test
LoopCheck(k) ==
    /\ threads[k].pc = "loop"
    /\ ~running \/ Len(event_queue) > 0
    /\ threads' = [threads EXCEPT ![k].pc = IF running THEN "get" ELSE "exited"]
    /\ UNCHANGED <<events, event_queue, event_history, subscribers, error_handlers,
                   running, delivered, dispatched, errlog, publish_raised, nsubs, registered, state, storeVars>>
    /\ UNCHANGED <<wfVars, engVars>>

\* _process_events: event_queue.get(timeout=1) and the head of _dispatch_event
\* (gathering the handlers); an exception of get goes to _handle_error
Get(k) ==
    /\ threads[k].pc = "get"
    /\ IF Len(event_queue) = 0
       THEN \* queue.Empty after the timeout
            /\ errlog' = Append(errlog, [src |-> "queue", ev |-> 0,
                                         notified |-> HandleError(error_handlers, 1)])
            /\ threads' = [threads EXCEPT ![k] = IdleThread]
            /\ UNCHANGED <<event_queue, subscribers, dispatched>>
       ELSE LET r == HeapPop(event_queue)
                id == r.item[3]
                type == events[id].type
                keyed == type \in DOMAIN subscribers
                list == IF keyed THEN subscribers[type] \o WildList ELSE WildList
            IN  /\ event_queue' = r.heap
                /\ IF r.err
                   THEN /\ errlog' = Append(errlog, [src |-> "queue", ev |-> 0,
                                            notified |-> HandleError(error_handlers, 1)])
                        /\ threads' = [threads EXCEPT ![k] = IdleThread]
                        /\ UNCHANGED <<subscribers, dispatched>>
                   ELSE /\ dispatched' = Append(dispatched, id)
                        /\ subscribers' = IF keyed
                                          THEN [subscribers EXCEPT ![type] = list]
                                          ELSE subscribers
                        /\ threads' = [threads EXCEPT ![k] =
                               IF Len(list) = 0 THEN IdleThread
                               ELSE [pc |-> "dispatch", ev |-> id,
                                     ref |-> IF keyed THEN type ELSE "",
                                     fresh |-> IF keyed THEN <<>> ELSE list,
                                     idx |-> 1]]
                        /\ UNCHANGED errlog
    /\ UNCHANGED <<events, event_history, error_handlers, running, delivered,
                   publish_raised, nsubs, registered, state, storeVars>>
    /\ UNCHANGED <<wfVars, engVars>>

\* _aggregate_fleet_stats over the fields the registry's vehicles carry here:
\* the number of vehicles, of vehicles per status, and of vehicles that hold
\* a mission
aggregate_fleet_stats(vs) ==
    [total |-> Len(vs),
     by_status |-> [st \in {vs[v].status : v \in DOMAIN vs} |->
                       Cardinality({v \in DOMAIN vs : vs[v].status = st})],
     active_missions |-> Cardinality({v \in DOMAIN vs : vs[v].mission_id # 0})]

\* what a handler that returns does to the state tree
HandlerEffect(h, st) ==
    IF h = "_handle_any_event"
    THEN [st EXCEPT !.system.event_count = Len(event_history)]
    ELSE IF h = "_handle_vehicle_event"
    THEN [st EXCEPT !.system = ("fleet_stats" :> aggregate_fleet_stats(vehicles)) @@ @]
    ELSE st

\* _dispatch_event: one turn of the loop over the handlers, aborting the
\* dispatch of the event when the handler raises
InvokeAbort(k) ==
    LET th == threads[k]
        h == HandlersOf(th)[th.idx]
    IN  /\ th.pc = "dispatch"
        /\ delivered' = [delivered EXCEPT ![th.ev] = Append(@, h)]
        /\ IF Throws(h)
           THEN /\ errlog' = Append(errlog, [src |-> "handler", ev |-> th.ev,
                                             notified |-> HandleError(error_handlers, 1)])
                /\ threads' = [threads EXCEPT ![k] = IdleThread]
                /\ UNCHANGED <<events, state, storeVars>>
           ELSE /\ events' = [events EXCEPT ![th.ev].processed = TRUE]
                /\ UNCHANGED storeVars
                /\ state' = HandlerEffect(h, state)
                /\ threads' = [threads EXCEPT ![k] =
                       IF th.idx + 1 > Len(HandlersOf(th)) THEN IdleThread
                       ELSE [th EXCEPT !.idx = th.idx + 1]]
                /\ UNCHANGED errlog
        /\ UNCHANGED <<event_queue, event_history, subscribers, error_handlers,
                       running, dispatched, publish_raised, nsubs, registered>>
        /\ UNCHANGED <<wfVars, engVars>>

\* _dispatch_event: one turn of the loop over the handlers
Invoke(k) ==
    LET th == threads[k]
        h == HandlersOf(th)[th.idx]
    IN  /\ th.pc = "dispatch"
        /\ delivered' = [delivered EXCEPT ![th.ev] = Append(@, h)]
        /\ IF Throws(h)
           THEN /\ errlog' = Append(errlog, [src |-> "handler", ev |-> th.ev,
                                             notified |-> HandleError(error_handlers, 1)])
                /\ UNCHANGED <<events, state, storeVars>>
           ELSE /\ events' = [events EXCEPT ![th.ev].processed = TRUE]
                /\ UNCHANGED storeVars
                /\ state' = HandlerEffect(h, state)
                /\ UNCHANGED errlog
        /\ threads' = [threads EXCEPT ![k] =
               IF th.idx + 1 > Len(HandlersOf(th)) THEN IdleThread
               ELSE [th EXCEPT !.idx = th.idx + 1]]
        /\ UNCHANGED <<event_queue, event_history, subscribers, error_handlers,
                       running, dispatched, publish_raised, nsubs, registered>>
        /\ UNCHANGED <<wfVars, engVars>>

\* ------------------------------------------------------------------------
\* WorkflowCoordinator
\* ------------------------------------------------------------------------
\* one list entry per Event object created
Pad(d, n) == [i \in 1..n |-> IF i <= Len(d) THEN d[i] ELSE <<>>]

\* WorkflowStep(name, handler, rollback_handler)
NewStep(kind, rb) == [status |-> "pending", result |-> FALSE, rb |-> rb, kind |-> kind]

\* the local variables of one execute_workflow call; fresh tells, for a
\* mission workflow, that the call found the vehicle idle and neither the
\* vehicle nor the mission assigned
NewTask(w) == [wid |-> w, pc |-> "step", i |-> 1, completed |-> <<>>, j |-> 0,
               started |-> <<>>, invoked |-> <<>>, report |-> <<>>,
               cause |-> "", result |-> "", fresh |-> FALSE]

\* the reversed loop without the test for a rollback handler
NextRbAny(steps, completed, j) == j

\* reversed(completed_steps): the next position at or below j whose step
\* declares a rollback handler, 0 when there is none
RECURSIVE NextRb(_, _, _)
NextRb(steps, completed, j) ==
    IF j = 0 THEN 0
    ELSE IF steps[completed[j]].rb THEN j
    ELSE NextRb(steps, completed, j - 1)

\* datetime.now() advances
Tick ==
    /\ now < MaxTime
    /\ now' = now + 1
    /\ UNCHANGED <<routerVars, state, storeVars, workflows, tasks, active, engVars>>

\* WorkflowCoordinator.create_workflow with n steps of caller-supplied
\* handlers; rb[i] tells whether step i declares a rollback handler
CreateWorkflow(n, rb) ==
    /\ active = 0
    /\ Len(workflows) < MaxWorkflows
    /\ workflows' = Append(workflows,
          [status |-> "created",
           steps |-> [i \in 1..n |-> NewStep("generic", rb[i])],
           context |-> {}, mission |-> 0, vehicle |-> 0])
    /\ UNCHANGED storeVars
    /\ state' = [state EXCEPT !.workflows = Append(@, [status |-> "created"])]
    /\ UNCHANGED <<routerVars, now, tasks, active, engVars>>

\* execute_workflow is called: up to the head of the loop over the steps
ExecuteWorkflow(w) ==
    /\ active = 0
    /\ Len(tasks) < MaxTasks
    /\ workflows' = [workflows EXCEPT ![w].status = "running"]
    /\ tasks' = Append(tasks, NewTask(w))
    /\ active' = Len(tasks) + 1
    /\ UNCHANGED <<routerVars, state, storeVars, now, engVars>>

\* the loop body up to the call of the step handler, which suspends the
\* call when the handler is a coroutine function
StepStart(t) ==
    LET tk == tasks[t]
        wf == workflows[tk.wid]
    IN  /\ active = t
        /\ tk.pc = "step"
        /\ tk.i <= Len(wf.steps)
        /\ workflows' = [workflows EXCEPT ![tk.wid].steps[tk.i].status = "running"]
        /\ tasks' = [tasks EXCEPT ![t].pc = "await",
                                  ![t].started = Append(@, tk.i)]
        /\ active' = IF wf.steps[tk.i].kind = "generic" THEN 0 ELSE t
        /\ UNCHANGED <<routerVars, state, storeVars, now, engVars>>

\* the workflow's bookkeeping after a step handler returned: result, status,
\* completed_steps, context, and the workflow.step.completed event; a publish
\* that raises is caught by the except clause like a raising step
AfterStep(t, wfs, r) ==
    LET tk == tasks[t]
        done == [wfs EXCEPT ![tk.wid].steps[tk.i].result = TRUE,
                            ![tk.wid].steps[tk.i].status = "completed",
                            ![tk.wid].context = @ \cup {tk.i}]
        p == PublishOn(r, "workflow.step.completed", MEDIUM, now)
    IN  /\ events' = p.events
        /\ event_queue' = p.event_queue
        /\ event_history' = p.event_history
        /\ publish_raised' = p.raised
        /\ delivered' = Pad(delivered, Len(p.events))
        /\ IF p.raised
           THEN /\ workflows' = [done EXCEPT ![tk.wid].status = "failed"]
                /\ tasks' = [tasks EXCEPT ![t].completed = Append(@, tk.i),
                                          ![t].pc = "rollback",
                                          ![t].j = Len(tk.completed) + 1,
                                          ![t].cause = "publish"]
           ELSE /\ workflows' = done
                /\ tasks' = [tasks EXCEPT ![t].completed = Append(@, tk.i),
                                          ![t].pc = "step",
                                          ![t].i = tk.i + 1]

\* the except clause, with a rollback that leaves out the step completed last
FailedSkipsLast(t, wfs, why) ==
    /\ workflows' = [wfs EXCEPT ![tasks[t].wid].status = "failed"]
    /\ tasks' = [tasks EXCEPT ![t].pc = "rollback",
                              ![t].j = IF Len(tasks[t].completed) = 0 THEN 0
                                       ELSE Len(tasks[t].completed) - 1,
                              ![t].cause = why]

\* the except clause, marking every workflow of the coordinator failed
FailedAbortsAll(t, wfs, why) ==
    /\ workflows' = [w \in DOMAIN wfs |-> [wfs[w] EXCEPT !.status = "failed"]]
    /\ tasks' = [tasks EXCEPT ![t].pc = "rollback",
                              ![t].j = Len(tasks[t].completed),
                              ![t].cause = why]

\* the except clause of execute_workflow, up to the call of _rollback_workflow
Failed(t, wfs, why) ==
    /\ workflows' = [wfs EXCEPT ![tasks[t].wid].status = "failed"]
    /\ tasks' = [tasks EXCEPT ![t].pc = "rollback",
                              ![t].j = Len(tasks[t].completed),
                              ![t].cause = why]

\* the awaited handler of a caller-supplied step returns
StepReturn(t) ==
    /\ active = 0
    /\ tasks[t].pc = "await"
    /\ workflows[tasks[t].wid].steps[tasks[t].i].kind = "generic"
    /\ active' = t
    /\ AfterStep(t, workflows, RouterOf(events, event_queue, event_history))
    /\ UNCHANGED <<subscribers, error_handlers, running, threads, dispatched,
                   errlog, nsubs, registered, state, storeVars, now, engVars>>

\* the awaited handler of a caller-supplied step raises
StepRaise(t) ==
    /\ active = 0
    /\ tasks[t].pc = "await"
    /\ workflows[tasks[t].wid].steps[tasks[t].i].kind = "generic"
    /\ active' = t
    /\ Failed(t, workflows, "step")
    /\ UNCHANGED <<routerVars, state, storeVars, now, engVars>>

\* the loop over the steps is exhausted: the workflow completed
Complete(t) ==
    LET tk == tasks[t]
    IN  /\ active = t
        /\ tk.pc = "step"
        /\ tk.i > Len(workflows[tk.wid].steps)
        /\ workflows' = [workflows EXCEPT ![tk.wid].status = "completed"]
        /\ tasks' = [tasks EXCEPT ![t].pc = "done", ![t].result = "success"]
        /\ active' = 0
        /\ UNCHANGED <<routerVars, state, storeVars, now, engVars>>

\* _rollback_workflow: the next completed step, in reverse, that declares a
\* rollback handler is called; the call suspends on a coroutine function
RollbackCall(t) ==
    LET tk == tasks[t]
        wf == workflows[tk.wid]
        j == NextRb(wf.steps, tk.completed, tk.j)
    IN  /\ active = t
        /\ tk.pc = "rollback"
        /\ j > 0
        /\ tasks' = [tasks EXCEPT ![t].pc = "rbawait", ![t].j = j,
                                  ![t].invoked = Append(@, tk.completed[j])]
        /\ active' = IF wf.steps[tk.completed[j]].kind = "generic" THEN 0 ELSE t
        /\ UNCHANGED <<routerVars, state, storeVars, now, workflows, engVars>>

\* the record _rollback_workflow makes of one rollback handler call
Recorded(t, status) ==
    [tasks EXCEPT ![t].pc = "rollback",
                  ![t].j = tasks[t].j - 1,
                  ![t].report = Append(@, [step |-> tasks[t].completed[tasks[t].j],
                                           status |-> status])]

\* the awaited rollback handler returns
RollbackReturn(t) ==
    /\ active = 0
    /\ tasks[t].pc = "rbawait"
    /\ workflows[tasks[t].wid].steps[tasks[t].completed[tasks[t].j]].kind = "generic"
    /\ active' = t
    /\ tasks' = Recorded(t, "rolled_back")
    /\ UNCHANGED <<routerVars, state, storeVars, now, workflows, engVars>>

\* the awaited rollback handler raises, aborting the rollback
RollbackRaiseAbort(t) ==
    /\ active = 0
    /\ tasks[t].pc = "rbawait"
    /\ workflows[tasks[t].wid].steps[tasks[t].completed[tasks[t].j]].kind = "generic"
    /\ active' = t
    /\ tasks' = [Recorded(t, "rollback_failed") EXCEPT ![t].j = 0]
    /\ UNCHANGED <<routerVars, state, storeVars, now, workflows, engVars>>

\* the awaited rollback handler raises
RollbackRaise(t) ==
    /\ active = 0
    /\ tasks[t].pc = "rbawait"
    /\ workflows[tasks[t].wid].steps[tasks[t].completed[tasks[t].j]].kind = "generic"
    /\ active' = t
    /\ tasks' = Recorded(t, "rollback_failed")
    /\ UNCHANGED <<routerVars, state, storeVars, now, workflows, engVars>>

\* _rollback_workflow: no rollback handler is left; the workflow is marked
\* rolled back and execute_workflow returns the failure
RollbackDone(t) ==
    LET tk == tasks[t]
        wf == workflows[tk.wid]
    IN  /\ active = t
        /\ tk.pc = "rollback"
        /\ NextRb(wf.steps, tk.completed, tk.j) = 0
        /\ workflows' = [workflows EXCEPT ![tk.wid].status = "rolled_back"]
        /\ tasks' = [tasks EXCEPT ![t].pc = "done", ![t].j = 0,
                                  ![t].result = "failure"]
        /\ active' = 0
        /\ UNCHANGED <<routerVars, state, storeVars, now, engVars>>

\* ------------------------------------------------------------------------
\* OrchestratorEngine: vehicles, missions and the six-step mission workflow
\* ------------------------------------------------------------------------
\* what the waypoints of a mission are to the planner and the geofences:
\* "clean" breaches nothing, "warning" lies in one warning zone, "invalid"
\* exceeds the vehicle's flight envelope
Profiles == {"clean", "warning", "invalid"}

\* the breaches check_breach finds, and publishes, over the waypoints
Breaches(profile) == IF profile = "warning" THEN 1 ELSE 0

\* validate_mission collects no issue
Valid(profile) == profile # "invalid"

\* the steps of execute_mission_workflow
MissionSteps == <<"validate_mission", "assign_vehicle", "check_geofences",
                  "arm_vehicle", "execute_mission", "monitor_progress">>

\* the steps declared with a rollback_handler
MissionRb(kind) == kind \in {"validate_mission", "assign_vehicle",
                             "arm_vehicle", "execute_mission"}

\* the engine's objects as a step function finds and leaves them; raised
\* tells that the function raised
Eng(vs, ms, st, r) == [vehicles |-> vs, missions |-> ms, state |-> st, r |-> r,
                       raised |-> FALSE]

\* a publish made inside a step function: its exception propagates
WithPublish(e, p) == [e EXCEPT !.r = p, !.raised = p.raised]

\* check_breach over the waypoints: one geofence.breach event per breach
RECURSIVE check_breach(_, _)
check_breach(e, n) ==
    IF n = 0 \/ e.raised THEN e
    ELSE check_breach(WithPublish(e, PublishOn(e.r, "geofence.breach", CRITICAL, now)),
                      n - 1)

\* update_status reading old_status after the assignment
update_status_late_read(e, v, new) ==
    IF v \notin DOMAIN e.vehicles THEN e
    ELSE WithPublish([e EXCEPT !.vehicles[v].status = new,
                               !.state.vehicles[v].status = new],
                     PublishData(e.r, "vehicle.status.changed", HIGH, now,
                                 [vehicle_id |-> v,
                                  old_status |-> new,
                                  new_status |-> new]))

\* VehicleManagerModule.update_status: the vehicle object, then the store,
\* then the vehicle.status.changed event
update_status(e, v, new) ==
    IF v \notin DOMAIN e.vehicles THEN e
    ELSE WithPublish([e EXCEPT !.vehicles[v].status = new,
                               !.state.vehicles[v].status = new],
                     PublishData(e.r, "vehicle.status.changed", HIGH, now,
                                 [vehicle_id |-> v,
                                  old_status |-> e.vehicles[v].status,
                                  new_status |-> new]))

\* VehicleManagerModule.update_location: the vehicle object, then the store,
\* then the vehicle.location.updated event
update_location(e, v, location) ==
    IF v \notin DOMAIN e.vehicles THEN e
    ELSE WithPublish([e EXCEPT !.vehicles[v].location = location,
                               !.state.vehicles[v].location = location],
                     PublishData(e.r, "vehicle.location.updated", LOW, now,
                                 [vehicle_id |-> v, location |-> location]))

\* register_vehicle(vehicle) on a registry where the new ids are given in
\* order: a known id returns before anything is written
register_vehicle_on(e, v, vehicle) ==
    IF v \in DOMAIN e.vehicles THEN e
    ELSE WithPublish([e EXCEPT !.vehicles = Append(@, vehicle),
                               !.state.vehicles =
                                   Append(@, [status |-> vehicle.status,
                                              location |-> vehicle.location])],
                     PublishData(e.r, "vehicle.registered", HIGH, now,
                                 [vehicle_id |-> v]))

\* the validate step without the test of validation['valid']
validate_mission_step_unchecked(e, m, v) ==
    IF m \notin DOMAIN e.missions \/ v \notin DOMAIN e.vehicles
    THEN [e EXCEPT !.raised = TRUE]
    ELSE LET c == check_breach(e, Breaches(e.missions[m].profile))
         IN  IF c.raised THEN c
             ELSE [c EXCEPT !.missions[m].status = "validated"]

validate_mission_step(e, m, v) ==
    IF m \notin DOMAIN e.missions \/ v \notin DOMAIN e.vehicles
    THEN [e EXCEPT !.raised = TRUE]
    ELSE LET c == check_breach(e, Breaches(e.missions[m].profile))
         IN  IF c.raised THEN c
             ELSE IF ~Valid(e.missions[m].profile) THEN [c EXCEPT !.raised = TRUE]
             ELSE [c EXCEPT !.missions[m].status = "validated"]

assign_vehicle_step(e, m, v) ==
    [e EXCEPT !.missions[m].vehicle_id = v,
              !.vehicles[v].mission_id = m,
              !.state.missions = (m :> [vehicle_id |-> v]) @@ @]

check_geofences_step(e, m, v) == check_breach(e, Breaches(e.missions[m].profile))

arm_vehicle_step(e, m, v) == update_status(e, v, "armed")

\* the execute step without the change of the vehicle's status
execute_mission_step_grounded(e, m, v) ==
    update_status([e EXCEPT !.missions[m].status = "executing"], v,
                  e.vehicles[v].status)

execute_mission_step(e, m, v) ==
    update_status([e EXCEPT !.missions[m].status = "executing"], v, "flying")

\* sets mission.progress, which nothing here reads
monitor_progress_step(e, m, v) == e

rollback_validation(e, m, v) ==
    IF m \in DOMAIN e.missions THEN [e EXCEPT !.missions[m].status = "planned"]
    ELSE e

rollback_assignment(e, m, v) ==
    LET a == IF m \in DOMAIN e.missions
             THEN [e EXCEPT !.missions[m].vehicle_id = 0] ELSE e
    IN  IF v \in DOMAIN a.vehicles
        THEN [a EXCEPT !.vehicles[v].mission_id = 0] ELSE a

disarm_vehicle_step(e, m, v) == update_status(e, v, "idle")

abort_mission_step(e, m, v) ==
    update_status(IF m \in DOMAIN e.missions
                  THEN [e EXCEPT !.missions[m].status = "failed"] ELSE e,
                  v, "emergency")

\* the handler of a step of the mission workflow
StepHandler(kind, e, m, v) ==
    CASE kind = "validate_mission" -> validate_mission_step(e, m, v)
      [] kind = "assign_vehicle"   -> assign_vehicle_step(e, m, v)
      [] kind = "check_geofences"  -> check_geofences_step(e, m, v)
      [] kind = "arm_vehicle"      -> arm_vehicle_step(e, m, v)
      [] kind = "execute_mission"  -> execute_mission_step(e, m, v)
      [] kind = "monitor_progress" -> monitor_progress_step(e, m, v)

\* the rollback_handler of a step of the mission workflow
RollbackHandler(kind, e, m, v) ==
    CASE kind = "validate_mission" -> rollback_validation(e, m, v)
      [] kind = "assign_vehicle"   -> rollback_assignment(e, m, v)
      [] kind = "arm_vehicle"      -> disarm_vehicle_step(e, m, v)
      [] kind = "execute_mission"  -> abort_mission_step(e, m, v)

\* a vehicle as VehicleFactory makes it, at its home location
Home == [lat |-> 0, lon |-> 0, alt |-> 0]
NewVehicle(status) == [status |-> status, mission_id |-> 0, location |-> Home]

\* the engine's objects and router before a call
EngNow == Eng(vehicles, missions, state, RouterOf(events, event_queue, event_history))

\* the router after a call that published, or not
RouterAfter(e) ==
    /\ events' = e.r.events
    /\ event_queue' = e.r.event_queue
    /\ event_history' = e.r.event_history
    /\ publish_raised' = IF Len(e.r.events) > Len(events) THEN e.r.raised
                         ELSE publish_raised
    /\ delivered' = Pad(delivered, Len(e.r.events))

\* datetime.now() advances (mission specification)
TickMission ==
    /\ now < MaxMissionTime
    /\ now' = now + 1
    /\ UNCHANGED <<routerVars, state, storeVars, workflows, tasks, active, engVars>>

\* VehicleManagerModule.register_vehicle of a vehicle made by VehicleFactory
register_vehicle ==
    LET v == Len(vehicles) + 1
        e == register_vehicle_on(EngNow, v, NewVehicle("idle"))
    IN  /\ active = 0
        /\ v <= MaxVehicles
        /\ vehicles' = e.vehicles
        /\ UNCHANGED storeVars
        /\ state' = e.state
        /\ RouterAfter(e)
        /\ UNCHANGED <<subscribers, error_handlers, running, threads, dispatched,
                       errlog, nsubs, registered, wfVars, missions, geoVars>>

\* ------------------------------------------------------------------------
\* Clients of the vehicle registry
\* ------------------------------------------------------------------------
Statuses == {"idle", "armed", "flying"}
Positions == {[lat |-> 1, lon |-> 1, alt |-> 50], [lat |-> 3, lon |-> 3, alt |-> 50]}

\* what a registry call leaves: the objects, the router and the call's record
RegistryAfter(e, op, v, arg, value) ==
    /\ vehicles' = e.vehicles
    /\ UNCHANGED storeVars
    /\ state' = e.state
    /\ RouterAfter(e)
    /\ ret' = [op |-> op, id |-> v, arg |-> arg, first |-> Len(events),
               raised |-> e.raised, value |-> ~e.raised /\ value]
    /\ UNCHANGED <<subscribers, error_handlers, running, threads, dispatched,
                   errlog, nsubs, registered, wfVars, missions, zones,
                   spatial_index>>

\* datetime.now() advances (registry specification)
TickRegistry ==
    /\ now < MaxRegTime
    /\ now' = now + 1
    /\ UNCHANGED <<routerVars, state, storeVars, workflows, tasks, active, engVars>>

\* a client calls register_vehicle with a known id or the next new one
RegisterVehicle(v, status) ==
    /\ v <= Len(vehicles) + 1
    /\ v \in DOMAIN vehicles \/ Len(events) < MaxRegEvents
    /\ RegistryAfter(register_vehicle_on(EngNow, v, NewVehicle(status)),
                     "register_vehicle", v, status, v \notin DOMAIN vehicles)

\* a client calls update_status
UpdateStatus(v, new) ==
    /\ v \notin DOMAIN vehicles \/ Len(events) < MaxRegEvents
    /\ RegistryAfter(update_status(EngNow, v, new),
                     "update_status", v, new, v \in DOMAIN vehicles)

\* a client calls update_location
UpdateLocation(v, location) ==
    /\ v \notin DOMAIN vehicles \/ Len(events) < MaxRegEvents
    /\ RegistryAfter(update_location(EngNow, v, location),
                     "update_location", v, location, v \in DOMAIN vehicles)

\* a client calls get_vehicle: the record, or None (0)
GetVehicle(v) ==
    /\ ret' = [op |-> "get_vehicle", id |-> v, arg |-> 0, first |-> Len(events),
               raised |-> FALSE, value |-> v \in DOMAIN vehicles]
    /\ UNCHANGED <<routerVars, state, storeVars, wfVars, vehicles, missions, zones,
                   spatial_index>>

\* a mission made by the MissionPlanner is put into engine.missions
AddMission(profile) ==
    /\ active = 0
    /\ Len(missions) < MaxMissions
    /\ missions' = Append(missions, [status |-> "created", vehicle_id |-> 0,
                                     profile |-> profile])
    /\ UNCHANGED <<routerVars, state, storeVars, wfVars, vehicles, geoVars>>

\* execute_mission_workflow(m, v): the workflow is created and
\* execute_workflow runs up to the head of its loop
execute_mission_workflow(m, v) ==
    /\ active = 0
    /\ Len(workflows) < MaxRuns
    /\ Len(tasks) < MaxRuns
    /\ workflows' = Append(workflows,
          [status |-> "running",
           steps |-> [i \in 1..Len(MissionSteps) |->
                         NewStep(MissionSteps[i], MissionRb(MissionSteps[i]))],
           context |-> {}, mission |-> m, vehicle |-> v])
    /\ UNCHANGED storeVars
    /\ state' = [state EXCEPT !.workflows = Append(@, [status |-> "created"])]
    /\ tasks' = Append(tasks,
          [NewTask(Len(workflows) + 1) EXCEPT !.fresh =
              /\ m \in DOMAIN missions
              /\ v \in DOMAIN vehicles
              /\ vehicles[v] = NewVehicle("idle")
              /\ missions[m].vehicle_id = 0])
    /\ active' = Len(tasks) + 1
    /\ UNCHANGED <<routerVars, now, engVars>>

\* the step function of a mission step is called and returns or raises
MissionStep(t) ==
    LET tk == tasks[t]
        wf == workflows[tk.wid]
        e == StepHandler(wf.steps[tk.i].kind, EngNow, wf.mission, wf.vehicle)
    IN  /\ active = t
        /\ tk.pc = "await"
        /\ wf.steps[tk.i].kind # "generic"
        /\ vehicles' = e.vehicles
        /\ missions' = e.missions
        /\ UNCHANGED storeVars
        /\ state' = e.state
        /\ IF e.raised
           THEN RouterAfter(e) /\ Failed(t, workflows, "step")
           ELSE AfterStep(t, workflows, e.r)
        /\ UNCHANGED <<subscribers, error_handlers, running, threads, dispatched,
                       errlog, nsubs, registered, now, active, geoVars>>

\* the rollback function of a mission step is called and returns or raises
MissionRollback(t) ==
    LET tk == tasks[t]
        wf == workflows[tk.wid]
        e == RollbackHandler(wf.steps[tk.completed[tk.j]].kind, EngNow,
                             wf.mission, wf.vehicle)
    IN  /\ active = t
        /\ tk.pc = "rbawait"
        /\ wf.steps[tk.completed[tk.j]].kind # "generic"
        /\ vehicles' = e.vehicles
        /\ missions' = e.missions
        /\ UNCHANGED storeVars
        /\ state' = e.state
        /\ RouterAfter(e)
        /\ tasks' = Recorded(t, IF e.raised THEN "rollback_failed" ELSE "rolled_back")
        /\ UNCHANGED <<subscribers, error_handlers, running, threads, dispatched,
                       errlog, nsubs, registered, now, workflows, active, geoVars>>

\* ------------------------------------------------------------------------
\* GeofencingEngine
\* ------------------------------------------------------------------------
\* A Location is [lat, lon, alt] in whole degrees and metres; the vertices
\* of a polygon are <<lat, lon>> pairs, their altitude is never read.
Min(a, b) == IF a < b THEN a ELSE b
Max(a, b) == IF a > b THEN a ELSE b
SetMin(S) == CHOOSE x \in S : \A y \in S : x <= y
SetMax(S) == CHOOSE x \in S : \A y \in S : x >= y

\* Geofence defaults
DefaultMinAltitude == 0
DefaultMaxAltitude == 1000

\* polygons a client hands to add_zone: a square given unclosed and closed,
\* a two-vertex line, a latitude and a longitude off the globe
Square == << <<0, 0>>, <<0, 2>>, <<2, 2>>, <<2, 0>> >>
SquareClosed == Append(Square, Square[1])
Polygons == {Square, SquareClosed,
             << <<0, 0>>, <<0, 2>> >>,
             << <<0, 0>>, <<91, 0>>, <<2, 2>> >>,
             << <<0, 0>>, <<0, 181>>, <<2, 2>> >>}
\* the Geofence objects a client hands to add_zone
Geofences ==
    [id : {"z1"}, type : {"keep-out", "keep-in"}, polygon : Polygons, active : BOOLEAN,
     min_altitude : {DefaultMinAltitude}, max_altitude : {DefaultMaxAltitude}]
    \cup
    [id : {"z2"}, type : {"warning", "keep-in"}, polygon : {Square}, active : BOOLEAN,
     min_altitude : {DefaultMinAltitude}, max_altitude : {DefaultMaxAltitude}]
\* locations a client checks: inside the square, outside it, on the vertex
\* that ray casting counts as inside; within the altitude band and above it
Locations == {[lat |-> p[1], lon |-> p[2], alt |-> a] :
                 p \in {<<1, 1>>, <<3, 3>>, <<2, 2>>}, a \in {50, 2000}}

\* _validate_polygon without the closing of the ring
validate_polygon_open(polygon) ==
    IF Len(polygon) < 3 THEN [ok |-> FALSE, polygon |-> polygon]
    ELSE IF \E i \in DOMAIN polygon :
                ~(-90 <= polygon[i][1] /\ polygon[i][1] <= 90
                  /\ -180 <= polygon[i][2] /\ polygon[i][2] <= 180)
    THEN [ok |-> FALSE, polygon |-> polygon]
    ELSE [ok |-> TRUE, polygon |-> polygon]

\* _validate_polygon: the verdict and the caller's list as the call leaves it
validate_polygon(polygon) ==
    IF Len(polygon) < 3 THEN [ok |-> FALSE, polygon |-> polygon]
    ELSE IF \E i \in DOMAIN polygon :
                ~(-90 <= polygon[i][1] /\ polygon[i][1] <= 90
                  /\ -180 <= polygon[i][2] /\ polygon[i][2] <= 180)
    THEN [ok |-> FALSE, polygon |-> polygon]
    ELSE IF polygon[1][1] # polygon[Len(polygon)][1]
            \/ polygon[1][2] # polygon[Len(polygon)][2]
    THEN [ok |-> TRUE, polygon |-> Append(polygon, polygon[1])]
    ELSE [ok |-> TRUE, polygon |-> polygon]

\* the bounding box _update_spatial_index records
update_spatial_index(g) ==
    [min_lat |-> SetMin({g.polygon[i][1] : i \in DOMAIN g.polygon}),
     max_lat |-> SetMax({g.polygon[i][1] : i \in DOMAIN g.polygon}),
     min_lon |-> SetMin({g.polygon[i][2] : i \in DOMAIN g.polygon}),
     max_lon |-> SetMax({g.polygon[i][2] : i \in DOMAIN g.polygon}),
     geofence_id |-> g.id]

\* self.zones[geofence.id] = geofence: a dict keeps the place of a key
PutZone(zs, g) ==
    IF \E i \in DOMAIN zs : zs[i].id = g.id
    THEN [i \in DOMAIN zs |-> IF zs[i].id = g.id THEN g ELSE zs[i]]
    ELSE Append(zs, g)

\* GeofencingEngine.add_zone
add_zone(g) ==
    LET v == validate_polygon(g.polygon)
        stored == [g EXCEPT !.polygon = v.polygon]
    IN  /\ active = 0
        /\ ret' = [op |-> "add_zone", arg |-> g, value |-> v.ok]
        /\ IF v.ok
           THEN /\ zones' = PutZone(zones, stored)
                /\ UNCHANGED storeVars
                /\ state' = [state EXCEPT !.geofences = (g.id :> stored) @@ @]
                /\ spatial_index' = (g.id :> update_spatial_index(stored)) @@ spatial_index
           ELSE UNCHANGED <<zones, state, storeVars, spatial_index>>
        /\ UNCHANGED <<routerVars, wfVars, vehicles, missions>>

\* the ray casting loop without the upper test on y
RECURSIVE pip_loop_no_upper(_, _, _, _, _, _)
pip_loop_no_upper(x, y, polygon, i, p1, inside) ==
    IF i > Len(polygon) THEN inside
    ELSE LET p2 == polygon[(i % Len(polygon)) + 1]
             p1x == p1[2]
             p1y == p1[1]
             p2x == p2[2]
             p2y == p2[1]
             le_xinters ==
                 IF p2y > p1y
                 THEN (x - p1x) * (p2y - p1y) <= (y - p1y) * (p2x - p1x)
                 ELSE (x - p1x) * (p2y - p1y) >= (y - p1y) * (p2x - p1x)
             crosses == /\ y > Min(p1y, p2y)
                        /\ x <= Max(p1x, p2x)
                        /\ (p1x = p2x \/ le_xinters)
         IN  pip_loop_no_upper(x, y, polygon, i + 1, p2,
                               IF crosses THEN ~inside ELSE inside)

\* the ray casting loop of point_in_polygon from edge i on; the comparison
\* x <= xinters is made without the division, which is exact for whole
\* coordinates; an edge with p1y = p2y never passes the two tests on y
RECURSIVE pip_loop(_, _, _, _, _, _)
pip_loop(x, y, polygon, i, p1, inside) ==
    IF i > Len(polygon) THEN inside
    ELSE LET p2 == polygon[(i % Len(polygon)) + 1]
             p1x == p1[2]
             p1y == p1[1]
             p2x == p2[2]
             p2y == p2[1]
             le_xinters ==
                 IF p2y > p1y
                 THEN (x - p1x) * (p2y - p1y) <= (y - p1y) * (p2x - p1x)
                 ELSE (x - p1x) * (p2y - p1y) >= (y - p1y) * (p2x - p1x)
             crosses == /\ y > Min(p1y, p2y)
                        /\ y <= Max(p1y, p2y)
                        /\ x <= Max(p1x, p2x)
                        /\ (p1x = p2x \/ le_xinters)
         IN  pip_loop(x, y, polygon, i + 1, p2,
                      IF crosses THEN ~inside ELSE inside)

\* GeofencingEngine.point_in_polygon
point_in_polygon(point, polygon) ==
    pip_loop(point.lon, point.lat, polygon, 1, polygon[1], FALSE)

\* haversine_distance(point, q) < 50: whole-degree points are either the
\* same point or kilometres apart
WithinLimit(point, q) == point.lat = q[1] /\ point.lon = q[2]

\* _distance_to_boundary(point, polygon) < 50: the distance taken is the one
\* to the first vertex of each segment
NearBoundary(point, polygon) ==
    \E i \in 1..(Len(polygon) - 1) : WithinLimit(point, polygon[i])

\* the breach record
Breach(zone, type, severity, action) ==
    [zone_id |-> zone.id, type |-> type, severity |-> severity, action |-> action]

\* the body of the loop without the test of the altitude band
BreachOfAnyAltitude(zone, loc) ==
    IF ~zone.active THEN <<>>
    ELSE LET is_inside == point_in_polygon(loc, zone.polygon)
         IN  IF zone.type = "keep-out" /\ is_inside
             THEN <<Breach(zone, "entry_breach", "critical", "RTL")>>
             ELSE IF zone.type = "keep-in" /\ ~is_inside
             THEN <<Breach(zone, "exit_breach", "critical", "RTL")>>
             ELSE IF zone.type = "warning" /\ is_inside
                     /\ NearBoundary(loc, zone.polygon)
             THEN <<Breach(zone, "proximity_warning", "warning", "alert")>>
             ELSE <<>>

\* the body of the loop of check_breach for one zone: the breaches found,
\* none or one
BreachOf(zone, loc) ==
    IF ~zone.active THEN <<>>
    ELSE IF ~(zone.min_altitude <= loc.alt /\ loc.alt <= zone.max_altitude) THEN <<>>
    ELSE LET is_inside == point_in_polygon(loc, zone.polygon)
         IN  IF zone.type = "keep-out" /\ is_inside
             THEN <<Breach(zone, "entry_breach", "critical", "RTL")>>
             ELSE IF zone.type = "keep-in" /\ ~is_inside
             THEN <<Breach(zone, "exit_breach", "critical", "RTL")>>
             ELSE IF zone.type = "warning" /\ is_inside
                     /\ NearBoundary(loc, zone.polygon)
             THEN <<Breach(zone, "proximity_warning", "warning", "alert")>>
             ELSE <<>>

\* the breach event published at the priority of the breach's severity
publish_breach_by_severity(r, timestamp, breach) ==
    PublishData(r, "geofence.breach",
                IF breach.severity = "critical" THEN CRITICAL ELSE MEDIUM,
                timestamp, breach)

\* the geofence.breach event check_breach publishes for a breach
publish_breach(r, timestamp, breach) ==
    PublishData(r, "geofence.breach", CRITICAL, timestamp, breach)

\* the loop of check_breach from zone i on: every breach is appended and
\* published; ts[i] is the reading of the clock at zone i
RECURSIVE check_zones(_, _, _, _, _, _)
check_zones(r, zs, i, loc, ts, found) ==
    IF i > Len(zs) THEN [r |-> r, found |-> found]
    ELSE LET b == BreachOf(zs[i], loc)
         IN  IF b = <<>> THEN check_zones(r, zs, i + 1, loc, ts, found)
             ELSE LET p == publish_breach(r, ts[i], b[1])
                  IN  IF p.raised THEN [r |-> p, found |-> found \o b]
                      ELSE check_zones(p, zs, i + 1, loc, ts, found \o b)

\* GeofencingEngine.check_breach(loc) called by a client
CheckBreach(loc) ==
    \E ts \in [DOMAIN zones -> now..MaxGeoTime] :
        LET c == check_zones(RouterOf(events, event_queue, event_history),
                             zones, 1, loc, ts, <<>>)
        IN  /\ active = 0
            /\ \A i \in DOMAIN zones, k \in DOMAIN zones : i < k => ts[i] <= ts[k]
            /\ Len(c.r.events) <= MaxGeoEvents
            /\ RouterAfter(c)
            /\ now' = IF zones = <<>> THEN now ELSE ts[Len(zones)]
            /\ ret' = [op |-> "check_breach", loc |-> loc,
                       first |-> Len(events), raised |-> c.r.raised, found |-> c.found,
                       value |-> IF c.r.raised THEN <<>> ELSE c.found]
            /\ UNCHANGED <<subscribers, error_handlers, running, threads, dispatched,
                           errlog, nsubs, registered, state, storeVars, workflows, tasks, active,
                           vehicles, missions, zones, spatial_index>>

\* ------------------------------------------------------------------------
\* GlobalStateManager: get, set, update, delete on dict objects
\* ------------------------------------------------------------------------
AuditMax == 100

\* values: None, a number, a string, a reference to a dict object
None == [t |-> "none", v |-> 0]
Num(n) == [t |-> "int", v |-> n]
Text(n) == [t |-> "str", v |-> n]
Ref(o) == [t |-> "dict", v |-> o]
EmptyDict == [k \in {} |-> None]
Root == 1

\* self.state after __init__, with the keys the clients below use:
\* {'system': {'status': 'initialized'}, 'vehicles': {}}
InitialObjects == << ("system" :> Ref(2)) @@ ("vehicles" :> Ref(3)),
                     ("status" :> Text(0)),
                     EmptyDict >>

\* the dotted keys of the clients, split
StorePaths == {<<"vehicles">>, <<"vehicles", "V1">>, <<"vehicles", "V1", "status">>,
               <<"system", "status">>, <<"system", "status", "x">>, <<"x", "y">>}

\* d.get(k, default) on a dict object
DictGet(d, k, default) == IF k \in DOMAIN d THEN d[k] ELSE default

\* the loop of get from key i on; value.get on a number or a string raises
\* AttributeError
RECURSIVE get_loop(_, _, _, _, _)
get_loop(objs, value, keys, i, default) ==
    IF i > Len(keys) THEN [raised |-> FALSE, value |-> value]
    ELSE IF value.t # "dict" THEN [raised |-> TRUE, value |-> None]
    ELSE LET nxt == DictGet(objs[value.v], keys[i], default)
         IN  IF nxt.t = "none" THEN [raised |-> FALSE, value |-> default]
             ELSE get_loop(objs, nxt, keys, i + 1, default)

\* GlobalStateManager.get(key, default)
get(objs, keys, default) == get_loop(objs, Ref(Root), keys, 1, default)

\* the first loop of set from key i on, state being the value walked to:
\* a missing key gets a new dict; 'k not in state' or 'state[k] = {}' raises
\* TypeError on None, a number or a string
RECURSIVE set_walk(_, _, _, _)
set_walk(objs, state_, keys, i) ==
    IF i >= Len(keys) THEN [raised |-> FALSE, objs |-> objs, state |-> state_]
    ELSE IF state_.t # "dict" THEN [raised |-> TRUE, objs |-> objs, state |-> state_]
    ELSE IF keys[i] \in DOMAIN objs[state_.v]
    THEN set_walk(objs, objs[state_.v][keys[i]], keys, i + 1)
    ELSE LET o == Len(objs) + 1
             made == Append([objs EXCEPT ![state_.v] = (keys[i] :> Ref(o)) @@ @],
                            EmptyDict)
         IN  set_walk(made, Ref(o), keys, i + 1)

\* an append that drops the newest entry of a full history
AuditKeepOldest(hist, entry) ==
    IF Len(hist) >= AuditMax THEN hist ELSE Append(hist, entry)

\* deque.append on state_history (maxlen 100)
Audit(hist, entry) ==
    LET h == Append(hist, entry)
    IN  IF Len(h) > AuditMax THEN Tail(h) ELSE h

\* the set calls made so far
Sets == IF state_history = <<>> THEN 0 ELSE state_history[Len(state_history)].n

\* GlobalStateManager.set(key, value) on objects objs and history hist, as
\* set call number n: state.get on a value that is no dict raises
\* AttributeError, after the dicts made on the way
set(objs, hist, keys, value, n) ==
    LET w == set_walk(objs, Ref(Root), keys, 1)
        last == keys[Len(keys)]
    IN  IF w.raised \/ w.state.t # "dict"
        THEN [raised |-> TRUE, objs |-> w.objs, hist |-> hist]
        ELSE [raised |-> FALSE,
              objs |-> [w.objs EXCEPT ![w.state.v] = (last :> value) @@ @],
              hist |-> Audit(hist, [key |-> keys,
                                    old_value |-> DictGet(w.objs[w.state.v], last, None),
                                    new_value |-> value, n |-> n])]

\* the loop of delete from key i on: state.get(k, {}) raises AttributeError
\* on a number or a string
RECURSIVE delete_walk(_, _, _, _)
delete_walk(objs, state_, keys, i) ==
    IF i >= Len(keys) THEN [raised |-> FALSE, state |-> state_]
    ELSE IF state_.t \notin {"dict", "empty"} THEN [raised |-> TRUE, state |-> state_]
    ELSE IF state_.t = "dict" /\ keys[i] \in DOMAIN objs[state_.v]
    THEN delete_walk(objs, objs[state_.v][keys[i]], keys, i + 1)
    ELSE delete_walk(objs, [t |-> "empty", v |-> 0], keys, i + 1)

\* GlobalStateManager.delete(key): 'k in state' is False on the {} of a
\* missing key and on a string none of the keys is part of, and raises
\* TypeError on None and on a number
delete(objs, keys) ==
    LET w == delete_walk(objs, Ref(Root), keys, 1)
        last == keys[Len(keys)]
    IN  IF w.raised \/ w.state.t \in {"none", "int"} THEN [raised |-> TRUE, objs |-> objs]
        ELSE IF w.state.t = "dict" /\ last \in DOMAIN objs[w.state.v]
        THEN [raised |-> FALSE,
              objs |-> [objs EXCEPT ![w.state.v] =
                           [k \in DOMAIN @ \ {last} |-> @[k]]]]
        ELSE [raised |-> FALSE, objs |-> objs]

\* ------------------------------------------------------------------------
\* One client of the State Store at a time
\* ------------------------------------------------------------------------
\* the store calls made so far
StoreCalls == IF ret.op \in {"get", "set", "update", "delete"} THEN ret.n ELSE 0

\* the set the client repeats
SteadyKey == <<"system", "status">>
SteadyValue == Num(1)

StoreFrame == UNCHANGED <<routerVars, state, state_lock, calls, wfVars, vehicles,
                          missions, zones, spatial_index>>

\* get(key, default) with default None, 0 or a new {}
StoreGet(keys, kind) ==
    LET objs == IF kind = "dict" THEN Append(objects, EmptyDict) ELSE objects
        default == IF kind = "dict" THEN Ref(Len(objs))
                   ELSE IF kind = "int" THEN Num(0) ELSE None
        g == get(objs, keys, default)
    IN  /\ StoreCalls < MaxStoreCalls
        /\ objects' = objs
        /\ ret' = [op |-> "get", key |-> keys, arg |-> default, n |-> StoreCalls + 1,
                   raised |-> g.raised, value |-> g.value]
        /\ UNCHANGED state_history
        /\ StoreFrame

\* set(key, value) with value None, 1 or a new {}
StoreSet(keys, kind) ==
    LET objs == IF kind = "dict" THEN Append(objects, EmptyDict) ELSE objects
        value == IF kind = "dict" THEN Ref(Len(objs))
                 ELSE IF kind = "int" THEN SteadyValue ELSE None
        r == set(objs, state_history, keys, value, Sets + 1)
    IN  /\ \/ StoreCalls < MaxStoreCalls
           \/ keys = SteadyKey /\ kind = "int" /\ Sets < MaxSets
        /\ objects' = r.objs
        /\ state_history' = r.hist
        /\ ret' = [op |-> "set", key |-> keys, arg |-> value, n |-> StoreCalls + 1,
                   raised |-> r.raised, value |-> None]
        /\ StoreFrame

\* update(key, {'f': 1}) run by one thread alone: get(key, {}), the merge
\* into the dict got, set(key, current); a value that is no dict is left
StoreUpdate(keys) ==
    LET objs == Append(objects, EmptyDict)
        g == get(objs, keys, Ref(Len(objs)))
        merged == [objs EXCEPT ![g.value.v] = ("f" :> Num(1)) @@ @]
        r == set(merged, state_history, keys, g.value, Sets + 1)
        done == IF g.raised \/ g.value.t # "dict"
                THEN [raised |-> g.raised, objs |-> objs, hist |-> state_history]
                ELSE r
    IN  /\ StoreCalls < MaxStoreCalls
        /\ objects' = done.objs
        /\ state_history' = done.hist
        /\ ret' = [op |-> "update", key |-> keys, arg |-> None, n |-> StoreCalls + 1,
                   raised |-> done.raised, value |-> None]
        /\ StoreFrame

\* delete(key)
StoreDelete(keys) ==
    LET r == delete(objects, keys)
    IN  /\ StoreCalls < MaxStoreCalls
        /\ objects' = r.objs
        /\ ret' = [op |-> "delete", key |-> keys, arg |-> None, n |-> StoreCalls + 1,
                   raised |-> r.raised, value |-> None]
        /\ UNCHANGED state_history
        /\ StoreFrame

\* ------------------------------------------------------------------------
\* Threads calling the State Store at the same time
\* ------------------------------------------------------------------------
ThreadPaths == {<<"vehicles">>, <<"vehicles", "V1">>}
Fields == <<"f1", "f2", "f3">>

ThreadFrame == UNCHANGED <<routerVars, state, wfVars, engVars>>

\* thread Len(calls) + 1 calls update(key, {its field: 1}), set(key, {}) or
\* delete(key)
StartCall(op, keys) ==
    /\ Len(calls) < MaxStoreThreads
    /\ calls' = Append(calls, [op |-> op, pc |-> IF op = "update" THEN "get" ELSE op,
                               key |-> keys, field |-> Fields[Len(calls) + 1],
                               current |-> None, raised |-> FALSE])
    /\ UNCHANGED <<objects, state_history, state_lock>>
    /\ ThreadFrame

\* 'with self.state_lock' is entered
Acquire(t) ==
    /\ calls[t].pc \in {"get", "set", "delete"}
    /\ state_lock = 0
    /\ state_lock' = t
    /\ calls' = [calls EXCEPT ![t].pc = calls[t].pc \o "_locked"]
    /\ UNCHANGED <<objects, state_history>>
    /\ ThreadFrame

\* update: current = self.get(key, {}) under the lock, which is left
GetLocked(t) ==
    LET objs == Append(objects, EmptyDict)
        g == get(objs, calls[t].key, Ref(Len(objs)))
    IN  /\ calls[t].pc = "get_locked"
        /\ state_lock' = 0
        /\ objects' = objs
        /\ calls' = [calls EXCEPT ![t].current = g.value, ![t].raised = g.raised,
                                  ![t].pc = IF g.raised \/ g.value.t # "dict"
                                            THEN "done" ELSE "merge"]
        /\ UNCHANGED state_history
        /\ ThreadFrame

\* update: current.update(updates), with no lock taken
Merge(t) ==
    /\ calls[t].pc = "merge"
    /\ objects' = [objects EXCEPT ![calls[t].current.v] =
                       (calls[t].field :> Num(1)) @@ @]
    /\ calls' = [calls EXCEPT ![t].pc = "set"]
    /\ UNCHANGED <<state_history, state_lock>>
    /\ ThreadFrame

\* the body of set under the lock, which is left: update stores current,
\* a set call a new {}
SetLocked(t) ==
    LET fresh == calls[t].op = "set"
        objs == IF fresh THEN Append(objects, EmptyDict) ELSE objects
        value == IF fresh THEN Ref(Len(objs)) ELSE calls[t].current
        r == set(objs, state_history, calls[t].key, value, Sets + 1)
    IN  /\ calls[t].pc = "set_locked"
        /\ state_lock' = 0
        /\ objects' = r.objs
        /\ state_history' = r.hist
        /\ calls' = [calls EXCEPT ![t].pc = "done", ![t].raised = r.raised]
        /\ ThreadFrame

\* the body of delete under the lock, which is left
DeleteLocked(t) ==
    LET r == delete(objects, calls[t].key)
    IN  /\ calls[t].pc = "delete_locked"
        /\ state_lock' = 0
        /\ objects' = r.objs
        /\ calls' = [calls EXCEPT ![t].pc = "done", ![t].raised = r.raised]
        /\ UNCHANGED state_history
        /\ ThreadFrame

\* ------------------------------------------------------------------------
\* Initial state: the OrchestratorEngine after construction
\* ------------------------------------------------------------------------
InitComponents ==
    /\ events = <<>>
    /\ event_queue = <<>>
    /\ event_history = <<>>
    /\ error_handlers = <<>>
    /\ running = FALSE
    /\ threads = <<>>
    /\ delivered = <<>>
    /\ dispatched = <<>>
    /\ errlog = <<>>
    /\ publish_raised = FALSE
    /\ nsubs = 0
    /\ state = [system |-> [status |-> "initialized", event_count |-> 0],
                workflows |-> <<>>, vehicles |-> <<>>, missions |-> <<>>,
                geofences |-> <<>>]
    /\ now = 0
    /\ workflows = <<>>
    /\ tasks = <<>>
    /\ active = 0
    /\ vehicles = <<>>
    /\ missions = <<>>
    /\ zones = <<>>
    /\ spatial_index = <<>>
    /\ objects = InitialObjects
    /\ state_history = <<>>
    /\ state_lock = 0
    /\ calls = <<>>

InitEngine ==
    /\ subscribers = ("vehicle.*" :> <<"_handle_vehicle_event">>)
                      @@ (WILDCARD :> <<"_handle_any_event">>)
                      @@ ("geofence.breach" :> <<"_handle_breach">>)
                      @@ ("mission.*" :> <<"_handle_mission_event">>)
    /\ registered = subscribers
    /\ InitComponents

\* no client call has been made
Init ==
    /\ InitEngine
    /\ ret = [op |-> "none"]

\* ------------------------------------------------------------------------
\* The router with external subscribers and publishers
\* ------------------------------------------------------------------------
NextRouter ==
    \/ \E t \in UserTypes \cup {WILDCARD}, h \in UserHandlers : Subscribe(t, h)
    \/ \E o \in Observers : AddErrorHandler(o)
    \/ \E t \in UserTypes, p \in {MEDIUM}, ts \in 1..MaxTs :
          Len(events) < MaxEvents /\ Publish(t, p, ts)
    \/ Start
    \/ Stop
    \/ \E k \in DOMAIN threads : LoopCheck(k)
    \/ \E k \in DOMAIN threads : Get(k)
    \/ \E k \in DOMAIN threads : Invoke(k)

SpecRouter == Init /\ [][NextRouter]_vars

\* ------------------------------------------------------------------------
\* An EventRouter of its own, as its constructor leaves it: no subscribers;
\* one client subscribes, publishes, starts and stops
\* ------------------------------------------------------------------------
InitEventRouter ==
    /\ subscribers = [t \in {} |-> <<>>]
    /\ registered = subscribers
    /\ InitComponents
    /\ ret = [op |-> "none"]

\* stop() joins the worker thread, the one started last: no stop call is
\* waiting for it
Joined == IF threads = <<>> THEN TRUE ELSE threads[Len(threads)].pc = "exited"

NextEventRouter ==
    \/ \E h \in UserHandlers : nsubs < MaxLoopSubs /\ Subscribe("user.a", h)
    \/ \E ts \in 1..MaxTs : Len(events) < MaxEvents /\ Publish("user.a", MEDIUM, ts)
    \/ (running \/ Joined) /\ StartUpTo(MaxLoops)
    \/ Stop
    \/ \E k \in DOMAIN threads : LoopCheck(k)
    \/ \E k \in DOMAIN threads : Get(k)
    \/ \E k \in DOMAIN threads : Invoke(k)

SpecEventRouter == InitEventRouter /\ [][NextEventRouter]_vars

\* ------------------------------------------------------------------------
\* The queue alone: events are published before the router is started, then
\* the dispatch loop runs; no new subscribers
\* ------------------------------------------------------------------------
NextQueue ==
    \/ \E p \in {CRITICAL, HIGH}, ts \in 1..MaxQueueTs :
          /\ Len(events) < MaxQueueEvents
          /\ threads = <<>>
          /\ Publish("user.a", p, ts)
    \/ Start
    \/ \E k \in DOMAIN threads : LoopCheck(k)
    \/ \E k \in DOMAIN threads : Get(k)
    \/ \E k \in DOMAIN threads : Invoke(k)

SpecQueue == Init /\ [][NextQueue]_vars

\* ------------------------------------------------------------------------
\* The engine's router with a publisher that goes on publishing after
\* start(); no stop(). The dispatch thread is a daemon thread the
\* interpreter keeps scheduling: its steps are weakly fair.
\* ------------------------------------------------------------------------
NextDispatch ==
    \/ \E ts \in 1..MaxFairTs :
          Len(events) < MaxFairEvents /\ Publish("user.a", HIGH, ts)
    \/ Start
    \/ \E k \in DOMAIN threads : LoopCheck(k)
    \/ \E k \in DOMAIN threads : Get(k)
    \/ \E k \in DOMAIN threads : Invoke(k)

DispatchLoop == \E k \in DOMAIN threads : LoopCheck(k) \/ Get(k) \/ Invoke(k)

SpecDispatch == Init /\ [][NextDispatch]_vars /\ WF_vars(DispatchLoop)

\* ------------------------------------------------------------------------
\* The coordinator with caller-supplied workflows whose handlers are
\* coroutine functions, on an engine whose router has not been started (the
\* published events stay queued)
\* ------------------------------------------------------------------------
NextWorkflow ==
    \/ Tick
    \/ \E n \in 1..MaxSteps : \E rb \in [1..n -> BOOLEAN] : CreateWorkflow(n, rb)
    \/ \E w \in DOMAIN workflows : ExecuteWorkflow(w)
    \/ \E t \in DOMAIN tasks : StepStart(t)
    \/ \E t \in DOMAIN tasks : StepReturn(t)
    \/ \E t \in DOMAIN tasks : StepRaise(t)
    \/ \E t \in DOMAIN tasks : Complete(t)
    \/ \E t \in DOMAIN tasks : RollbackCall(t)
    \/ \E t \in DOMAIN tasks : RollbackReturn(t)
    \/ \E t \in DOMAIN tasks : RollbackRaise(t)
    \/ \E t \in DOMAIN tasks : RollbackDone(t)

SpecWorkflow == Init /\ [][NextWorkflow]_vars

\* ------------------------------------------------------------------------
\* The coordinator on an engine whose router is started: the dispatch loop
\* takes the step events while workflows run, fail and roll back; every step
\* declares a rollback handler
\* ------------------------------------------------------------------------
NextWorkflowLoop ==
    \/ Tick
    \/ Start
    \/ \E n \in 1..MaxLoopSteps : CreateWorkflow(n, [i \in 1..n |-> TRUE])
    \/ \E w \in DOMAIN workflows : ExecuteWorkflow(w)
    \/ \E t \in DOMAIN tasks : StepStart(t)
    \/ \E t \in DOMAIN tasks : StepReturn(t)
    \/ \E t \in DOMAIN tasks : StepRaise(t)
    \/ \E t \in DOMAIN tasks : Complete(t)
    \/ \E t \in DOMAIN tasks : RollbackCall(t)
    \/ \E t \in DOMAIN tasks : RollbackReturn(t)
    \/ \E t \in DOMAIN tasks : RollbackRaise(t)
    \/ \E t \in DOMAIN tasks : RollbackDone(t)
    \/ \E k \in DOMAIN threads : LoopCheck(k)
    \/ \E k \in DOMAIN threads : Get(k)
    \/ \E k \in DOMAIN threads : Invoke(k)

SpecWorkflowLoop == Init /\ [][NextWorkflowLoop]_vars

\* ------------------------------------------------------------------------
\* The engine running mission workflows on registered vehicles and planned
\* missions; the router has not been started
\* ------------------------------------------------------------------------
NextMission ==
    \/ TickMission
    \/ register_vehicle
    \/ \E profile \in Profiles : AddMission(profile)
    \/ \E m \in 1..MaxMissions, v \in 1..MaxVehicles : execute_mission_workflow(m, v)
    \/ \E t \in DOMAIN tasks : StepStart(t)
    \/ \E t \in DOMAIN tasks : MissionStep(t)
    \/ \E t \in DOMAIN tasks : Complete(t)
    \/ \E t \in DOMAIN tasks : RollbackCall(t)
    \/ \E t \in DOMAIN tasks : MissionRollback(t)
    \/ \E t \in DOMAIN tasks : RollbackDone(t)

SpecMission == Init /\ [][NextMission]_vars

\* ------------------------------------------------------------------------
\* The vehicle registry with its clients; the router has not been started
\* ------------------------------------------------------------------------
NextRegistry ==
    \/ TickRegistry
    \/ \E v \in 1..MaxVehicles, status \in Statuses : RegisterVehicle(v, status)
    \/ \E v \in 1..MaxVehicles, new \in Statuses : UpdateStatus(v, new)
    \/ \E v \in 1..MaxVehicles, location \in Positions : UpdateLocation(v, location)
    \/ \E v \in 1..MaxVehicles : GetVehicle(v)

SpecRegistry == Init /\ [][NextRegistry]_vars

\* ------------------------------------------------------------------------
\* The registry's clients beside the started dispatch loop of the engine's
\* router
\* ------------------------------------------------------------------------
NextFleet ==
    \/ NextRegistry
    \/ Start
    \/ \E k \in DOMAIN threads : LoopCheck(k)
    \/ \E k \in DOMAIN threads : Get(k)
    \/ \E k \in DOMAIN threads : Invoke(k)

SpecFleet == Init /\ [][NextFleet]_vars

\* ------------------------------------------------------------------------
\* The battery/range check of validate_mission on whole-number batteries,
\* path lengths and ranges, the other checks held constant
\* ------------------------------------------------------------------------
\* vehicle.battery < required_battery * 1.2 with required_battery =
\* (total_distance / max_range) * 100, written without the division and
\* with 1.2 as 12/10 (max_range is positive)
insufficient_battery_inclusive(battery, total_distance, max_range) ==
    battery * max_range * 10 <= total_distance * 100 * 12

insufficient_battery(battery, total_distance, max_range) ==
    battery * max_range * 10 < total_distance * 100 * 12

\* validate_mission: valid is len(issues) == 0; other_issue tells that the
\* altitude or the geofence check has appended an issue
validate_mission(battery, total_distance, max_range, other_issue) ==
    LET battery_issue == insufficient_battery(battery, total_distance, max_range)
    IN  [valid |-> ~(other_issue \/ battery_issue), battery_issue |-> battery_issue]

InitBattery ==
    /\ InitEngine
    /\ ret \in [op : {"validate_mission"},
                battery : 0..MaxBattery,
                total_distance : 0..MaxDistance,
                max_range : MinRange..MaxRange,
                other_issue : BOOLEAN,
                evaluated : {FALSE}, valid : {FALSE}, battery_issue : {FALSE},
                prev_battery : {-1}, prev_valid : {FALSE}]

\* validate_mission(mission, vehicle) is called and its result recorded
ValidateMission ==
    LET res == validate_mission(ret.battery, ret.total_distance, ret.max_range,
                                ret.other_issue)
    IN  /\ ret.op = "validate_mission"
        /\ ~ret.evaluated
        /\ ret' = [ret EXCEPT !.evaluated = TRUE, !.valid = res.valid,
                               !.battery_issue = res.battery_issue]
        /\ UNCHANGED <<routerVars, state, storeVars, wfVars, vehicles, missions, zones,
                       spatial_index>>

\* the vehicle's battery is set to another level, the mission, the range
\* and the other checks staying as they are
SetBattery(battery) ==
    /\ ret.op = "validate_mission"
    /\ ret.evaluated
    /\ ret.prev_battery = -1
    /\ battery # ret.battery
    /\ ret' = [ret EXCEPT !.battery = battery, !.evaluated = FALSE,
                           !.prev_battery = ret.battery, !.prev_valid = ret.valid]
    /\ UNCHANGED <<routerVars, state, storeVars, wfVars, vehicles, missions, zones,
                   spatial_index>>

NextBattery ==
    \/ ValidateMission
    \/ \E battery \in 0..MaxBattery : SetBattery(battery)

SpecBattery == InitBattery /\ [][NextBattery]_vars

\* ------------------------------------------------------------------------
\* validate_mission with its geofence checks, on zones added before
\* ------------------------------------------------------------------------
DefaultVehicleMaxAltitude == 500
DefaultVehicleMaxRange == 10000

\* the zones of the planner's engine: a keep-out and a warning square
PlannerZones ==
    {[id |-> "z1", type |-> "keep-out", polygon |-> Square, active |-> TRUE,
      min_altitude |-> DefaultMinAltitude, max_altitude |-> DefaultMaxAltitude],
     [id |-> "z2", type |-> "warning", polygon |-> Square, active |-> TRUE,
      min_altitude |-> DefaultMinAltitude, max_altitude |-> DefaultMaxAltitude]}

\* waypoints: inside the square, outside it, on its vertex; below and above
\* the vehicle's ceiling
Waypoints == {[lat |-> p[1], lon |-> p[2], alt |-> a] :
                 p \in {<<1, 1>>, <<3, 3>>, <<2, 2>>}, a \in {50, 600}}
Missions == [waypoints : UNION {[1..n -> Waypoints] : n \in 1..MaxWaypoints},
             required_sensors : {{}, {"camera"}}]
Vehicles == [battery : {0, 100}, max_altitude : {DefaultVehicleMaxAltitude},
             max_range : {DefaultVehicleMaxRange}, sensors : {{}, {"camera"}}]

\* haversine_distance in metres between whole-degree points: zero for the
\* same point, otherwise more than a hundred kilometres a degree
Abs(n) == IF n < 0 THEN 0 - n ELSE n
haversine_distance(p, q) == 111000 * Max(Abs(p.lat - q.lat), Abs(p.lon - q.lon))

\* _calculate_path_distance
RECURSIVE calculate_path_distance(_, _)
calculate_path_distance(wps, i) ==
    IF i >= Len(wps) THEN 0
    ELSE haversine_distance(wps[i], wps[i + 1]) + calculate_path_distance(wps, i + 1)

\* the issues of the first loop: one for each waypoint above the ceiling;
\* an issue or a warning is <<kind, waypoint, zone or sensor>>
RECURSIVE envelope_issues(_, _, _)
envelope_issues(wps, i, max_altitude) ==
    IF i > Len(wps) THEN <<>>
    ELSE (IF wps[i].alt > max_altitude THEN << <<"altitude", i, "">> >> ELSE <<>>)
         \o envelope_issues(wps, i + 1, max_altitude)

\* one breach of waypoint i filed by its severity
breach_entry(i, breach) ==
    IF breach.severity = "critical"
    THEN [issues |-> << <<"geofence", i, breach.zone_id>> >>, warnings |-> <<>>]
    ELSE [issues |-> <<>>, warnings |-> << <<"warning_zone", i, breach.zone_id>> >>]

\* the breaches of waypoint i filed in order
RECURSIVE breach_entries(_, _, _)
breach_entries(i, breaches, k) ==
    IF k > Len(breaches) THEN [issues |-> <<>>, warnings |-> <<>>]
    ELSE LET e == breach_entry(i, breaches[k])
             rest == breach_entries(i, breaches, k + 1)
         IN  [issues |-> e.issues \o rest.issues, warnings |-> e.warnings \o rest.warnings]

\* the third loop from waypoint i on: check_breach of each waypoint, which
\* publishes and may raise; ts[(i - 1) * Len(zs) + k] is the clock at zone k
RECURSIVE geofence_compliance(_, _, _, _, _, _)
geofence_compliance(r, zs, wps, i, ts, acc) ==
    IF i > Len(wps) THEN [r |-> r, issues |-> acc.issues, warnings |-> acc.warnings]
    ELSE LET c == check_zones(r, zs, 1, wps[i],
                              [k \in DOMAIN zs |-> ts[(i - 1) * Len(zs) + k]], <<>>)
             e == breach_entries(i, c.found, 1)
         IN  IF c.r.raised
             THEN [r |-> c.r, issues |-> acc.issues, warnings |-> acc.warnings]
             ELSE geofence_compliance(c.r, zs, wps, i + 1, ts,
                      [issues |-> acc.issues \o e.issues,
                       warnings |-> acc.warnings \o e.warnings])

\* MissionPlanner.validate_mission(mission, vehicle) in full
validate_mission_full(r, zs, mission, vehicle, ts) ==
    LET wps == mission.waypoints
        envelope == envelope_issues(wps, 1, vehicle.max_altitude)
        battery == IF insufficient_battery(vehicle.battery,
                                           calculate_path_distance(wps, 1),
                                           vehicle.max_range)
                   THEN << <<"battery", 0, "">> >> ELSE <<>>
        g == geofence_compliance(r, zs, wps, 1, ts,
                                 [issues |-> envelope \o battery, warnings |-> <<>>])
        sensors == IF mission.required_sensors \subseteq vehicle.sensors THEN <<>>
                   ELSE << <<"sensor", 0, "camera">> >>
    IN  [r |-> g.r, raised |-> g.r.raised,
         valid |-> ~g.r.raised /\ g.issues = <<>>,
         issues |-> IF g.r.raised THEN <<>> ELSE g.issues,
         warnings |-> IF g.r.raised THEN <<>> ELSE g.warnings \o sensors]

\* the calls of validate_mission made so far
Validations == IF ret.op = "validate_mission" THEN ret.n ELSE 0

\* a client calls validate_mission
ValidateMissionFull(mission, vehicle) ==
    \E ts \in [1..(Len(mission.waypoints) * Len(zones)) -> now..MaxGeoTime] :
      \E c \in {validate_mission_full(RouterOf(events, event_queue, event_history),
                                       zones, mission, vehicle, ts)} :
            /\ Validations < MaxValidations
            /\ \A i \in DOMAIN ts, k \in DOMAIN ts : i < k => ts[i] <= ts[k]
            /\ Len(c.r.events) <= MaxPlanEvents
            /\ RouterAfter(c)
            /\ now' = IF ts = <<>> THEN now ELSE ts[Len(ts)]
            /\ ret' = [op |-> "validate_mission", mission |-> mission,
                       vehicle |-> vehicle, first |-> Len(events),
                       n |-> Validations + 1, raised |-> c.raised, valid |-> c.valid,
                       issues |-> c.issues, warnings |-> c.warnings]
            /\ UNCHANGED <<subscribers, error_handlers, running, threads, dispatched,
                           errlog, nsubs, registered, state, storeVars, workflows, tasks, active,
                           vehicles, missions, zones, spatial_index>>

\* a zone is added to the planner's engine, once
AddPlannerZone(g) ==
    /\ \A i \in DOMAIN zones : zones[i].id # g.id
    /\ add_zone(g)

NextPlanner ==
    \/ \E g \in PlannerZones : AddPlannerZone(g)
    \/ /\ Validations < MaxValidations
       /\ \E mission \in Missions, vehicle \in Vehicles :
              ValidateMissionFull(mission, vehicle)

SpecPlanner == Init /\ [][NextPlanner]_vars

\* ------------------------------------------------------------------------
\* Python floats: IEEE 754 binary64 values that are zero or positive, held as
\* [bits, e]: a significand of Precision bits, the first of them 1, times
\* 2^e; zero has no bits. Every operation rounds to nearest, ties to even.
\* ------------------------------------------------------------------------
Precision == 53
Zero == [bits |-> <<>>, e |-> 0]

\* the binary digits of a natural number, the highest first
RECURSIVE Bits(_)
Bits(n) == IF n = 0 THEN <<>> ELSE Append(Bits(n \div 2), n % 2)

Zeros(n) == [i \in 1..n |-> 0]

\* the digits are worked on Chunk at a time
Chunk == 8

RECURSIVE Pow2(_)
Pow2(n) == IF n = 0 THEN 1 ELSE 2 * Pow2(n - 1)

\* the number written by at most Chunk digits
RECURSIVE Val(_)
Val(bits) ==
    IF bits = <<>> THEN 0
    ELSE 2 * Val(SubSeq(bits, 1, Len(bits) - 1)) + bits[Len(bits)]

\* the number v < 2^n written with n digits
Digits(v, n) == Zeros(n - Len(Bits(v))) \o Bits(v)

\* some digit of the sequence from position i on is 1
AnyOne(bits, i) == \E j \in i..Len(bits) : bits[j] = 1

\* the digits of a * i + b + carry, over the first k digits of the digit
\* sequences a and b of one length
RECURSIVE MulAdd(_, _, _, _, _)
MulAdd(a, i, b, k, carry) ==
    IF k = 0 THEN Bits(carry)
    ELSE LET len == IF k >= Chunk THEN Chunk ELSE k
             t == Val(SubSeq(a, k - len + 1, k)) * i + Val(SubSeq(b, k - len + 1, k)) + carry
         IN  MulAdd(a, i, b, k - len, t \div Pow2(len)) \o Digits(t % Pow2(len), len)

\* the digits plus one, which may be one digit longer
Increment(bits) == MulAdd(bits, 1, Zeros(Len(bits)), Len(bits), 1)

\* the float nearest to bits * 2^e (+ a positive rest below the last digit
\* when sticky); bits starts with 1
Round(bits, e, sticky) ==
    LET n == Len(bits)
    IN  IF n <= Precision
        THEN [bits |-> bits \o Zeros(Precision - n), e |-> e - (Precision - n)]
        ELSE LET kept == SubSeq(bits, 1, Precision)
                 guard == bits[Precision + 1] = 1
                 rest == sticky \/ AnyOne(bits, Precision + 2)
                 up == guard /\ (rest \/ kept[Precision] = 1)
                 m == IF up THEN Increment(kept) ELSE kept
             IN  IF Len(m) > Precision
                 THEN [bits |-> SubSeq(m, 1, Precision), e |-> e + (n - Precision) + 1]
                 ELSE [bits |-> m, e |-> e + (n - Precision)]

\* float(a) of an int a >= 0
FromInt(a) == IF a = 0 THEN Zero ELSE Round(Bits(a), 0, FALSE)

\* the digits of d / m by long division, from the first 1 to past the
\* precision: acc holds the digits found, r the remainder, nfrac the number
\* of digits after the binary point
RECURSIVE Quotient(_, _, _, _)
Quotient(acc, r, m, nfrac) ==
    IF Len(acc) > Precision THEN [bits |-> acc, e |-> 0 - nfrac, sticky |-> r # 0]
    ELSE LET q == (r * Pow2(Chunk)) \div m
         IN  Quotient(IF acc = <<>> THEN Bits(q) ELSE acc \o Digits(q, Chunk),
                      (r * Pow2(Chunk)) % m, m, nfrac + Chunk)

\* d / m of ints d >= 0 and m > 0 (true division)
Divide(d, m) ==
    IF d = 0 THEN Zero
    ELSE LET q == Quotient(Bits(d \div m), d % m, m, 0)
         IN  Round(q.bits, q.e, q.sticky)

\* i * x of an int i >= 0 and a float x
Times(i, x) ==
    IF i = 0 \/ x = Zero THEN Zero
    ELSE Round(MulAdd(x.bits, i, Zeros(Len(x.bits)), Len(x.bits), 0), x.e, FALSE)

\* a + x of an int a >= 0 and a float x
Plus(a, x) ==
    IF x = Zero THEN FromInt(a)
    ELSE IF a = 0 THEN x
    ELSE LET e == IF x.e < 0 THEN x.e ELSE 0
             xs == x.bits \o Zeros(x.e - e)
             as == Bits(a) \o Zeros(0 - e)
             n == IF Len(xs) > Len(as) THEN Len(xs) ELSE Len(as)
             sum == MulAdd(Zeros(n - Len(as)) \o as, 1, Zeros(n - Len(xs)) \o xs, n, 0)
         IN  Round(sum, e, FALSE)

\* ------------------------------------------------------------------------
\* MissionPlanner.create_structure_scan, called with int arguments
\* ------------------------------------------------------------------------
\* altitude_step: 0 unless orbits > 1
altitude_step(altitude_min, altitude_max, orbits) ==
    IF orbits > 1 THEN Divide(altitude_max - altitude_min, orbits - 1) ELSE Zero

\* orbit_altitude of range(orbits)[orbit]
orbit_altitude(altitude_min, altitude_max, orbits, orbit) ==
    Plus(altitude_min, Times(orbit, altitude_step(altitude_min, altitude_max, orbits)))

\* the waypoints list, the orbit being the outer loop and the angle step the
\* inner one; sequence is the length of the list when the waypoint is made
create_structure_scan(altitude_min, altitude_max, orbits, points_per_orbit) ==
    [n \in 1..(orbits * points_per_orbit) |->
        [alt |-> orbit_altitude(altitude_min, altitude_max, orbits,
                                (n - 1) \div points_per_orbit),
         angle_step |-> (n - 1) % points_per_orbit,
         sequence |-> n - 1]]

InitScan ==
    /\ InitEngine
    /\ ret \in [op : {"arguments"},
                altitude_min : 0..MaxAltitudeMin,
                altitude_range : 0..MaxAltitudeRange,
                orbits : 1..MaxOrbits,
                points_per_orbit : 1..MaxPointsPerOrbit,
                waypoints : {<<>>}]

\* create_structure_scan(center, radius, altitude_min, altitude_max, orbits,
\* points_per_orbit) is called
CreateStructureScan ==
    /\ ret.op = "arguments"
    /\ ret' = [ret EXCEPT !.op = "create_structure_scan",
                          !.waypoints = create_structure_scan(
                               ret.altitude_min, ret.altitude_min + ret.altitude_range,
                               ret.orbits, ret.points_per_orbit)]
    /\ UNCHANGED <<routerVars, state, storeVars, wfVars, vehicles, missions, zones, spatial_index>>

SpecScan == InitScan /\ [][CreateStructureScan]_vars

\* ------------------------------------------------------------------------
\* MissionPlanner.create_survey_mission: the loops of _generate_grid_pattern,
\* one turn per step. Latitudes and longitudes are whole numbers of
\* 1/OverlapSteps of the unit the spacing is given in, which makes
\* spacing * (1 - overlap) a whole number; the conversion from metres to
\* degrees (a division by 111320, and by the cosine of the mean latitude for
\* the longitude) is a scaling by a positive factor and is left out.
\* ------------------------------------------------------------------------
\* the areas of interest: triangles with the bounding box 0..h by 0..w
GridPolygons == {<<[lat |-> 0, lon |-> 0], [lat |-> h, lon |-> 0], [lat |-> h, lon |-> w]>> :
                    h \in 0..MaxGridSize, w \in 0..MaxGridSize}

\* min and max of the latitudes and longitudes of the polygon
min_lat(polygon) == OverlapSteps * SetMin({polygon[n].lat : n \in DOMAIN polygon})
max_lat(polygon) == OverlapSteps * SetMax({polygon[n].lat : n \in DOMAIN polygon})
min_lon(polygon) == OverlapSteps * SetMin({polygon[n].lon : n \in DOMAIN polygon})
max_lon(polygon) == OverlapSteps * SetMax({polygon[n].lon : n \in DOMAIN polygon})

\* effective_spacing = spacing * (1 - overlap)
effective_spacing(spacing, overlap) == spacing * (OverlapSteps - overlap)

\* more waypoints, and more rows, than a grid over the largest box at the
\* smallest positive spacing holds: the counters of a loop that makes no
\* progress stop growing here
GridCap == (MaxGridSize * OverlapSteps) * (MaxGridSize * OverlapSteps) + 1

InitGrid ==
    /\ InitEngine
    /\ ret \in [op : {"create_survey_mission"}, pc : {"call"},
                polygon : GridPolygons,
                spacing : 1..MaxGridSpacing,
                overlap : 0..OverlapSteps,
                current_lat : {0}, current_lon : {0}, line_num : {0},
                sequence : {0}, waypoints : {<<>>}]

GridFrame == UNCHANGED <<routerVars, state, storeVars, wfVars, vehicles, missions,
                         zones, spatial_index>>

\* _generate_grid_pattern is entered: current_lat = min_lat
GridCall ==
    /\ ret.pc = "call"
    /\ ret' = [ret EXCEPT !.pc = "rows", !.current_lat = min_lat(ret.polygon)]
    /\ GridFrame

\* while current_lat < max_lat: the row starts at min_lon or at max_lon
GridRow ==
    /\ ret.pc = "rows"
    /\ ret' = IF ret.current_lat < max_lat(ret.polygon)
              THEN IF ret.line_num % 2 = 0
                   THEN [ret EXCEPT !.pc = "even", !.current_lon = min_lon(ret.polygon)]
                   ELSE [ret EXCEPT !.pc = "odd", !.current_lon = max_lon(ret.polygon)]
              ELSE [ret EXCEPT !.pc = "done"]
    /\ GridFrame

\* one turn of an inner loop: a waypoint and a step of lon_spacing, or the
\* end of the row and a step of lat_spacing
GridPoint ==
    LET step == effective_spacing(ret.spacing, ret.overlap)
        more == IF ret.pc = "even" THEN ret.current_lon < max_lon(ret.polygon)
                ELSE ret.current_lon > min_lon(ret.polygon)
    IN  /\ ret.pc \in {"even", "odd"}
        /\ IF more THEN Len(ret.waypoints) < GridCap ELSE ret.line_num < GridCap
        /\ ret' = IF more
                  THEN [ret EXCEPT
                          !.waypoints = Append(@, [lat |-> ret.current_lat,
                                                   lon |-> ret.current_lon,
                                                   sequence |-> ret.sequence]),
                          !.current_lon = IF ret.pc = "even" THEN @ + step ELSE @ - step,
                          !.sequence = @ + 1]
                  ELSE [ret EXCEPT !.pc = "rows",
                                   !.current_lat = @ + step,
                                   !.line_num = @ + 1]
        /\ GridFrame

NextGrid == GridCall \/ GridRow \/ GridPoint

\* the call runs on: a step that can be taken is taken
SpecGrid == InitGrid /\ [][NextGrid]_vars /\ WF_vars(NextGrid)

\* ------------------------------------------------------------------------
\* The State Store with one client at a time
\* ------------------------------------------------------------------------
NextStore ==
    \/ \E keys \in StorePaths, kind \in {"none", "int", "dict"} : StoreGet(keys, kind)
    \/ \E keys \in StorePaths, kind \in {"none", "int", "dict"} : StoreSet(keys, kind)
    \/ \E keys \in StorePaths : StoreUpdate(keys)
    \/ \E keys \in StorePaths : StoreDelete(keys)

SpecStore == Init /\ [][NextStore]_vars

\* ------------------------------------------------------------------------
\* The State Store with threads calling it at the same time
\* ------------------------------------------------------------------------
NextStoreThreads ==
    \/ \E op \in {"update", "set", "delete"}, keys \in ThreadPaths : StartCall(op, keys)
    \/ \E t \in DOMAIN calls : Acquire(t)
    \/ \E t \in DOMAIN calls : GetLocked(t)
    \/ \E t \in DOMAIN calls : Merge(t)
    \/ \E t \in DOMAIN calls : SetLocked(t)
    \/ \E t \in DOMAIN calls : DeleteLocked(t)

SpecStoreThreads == Init /\ [][NextStoreThreads]_vars

\* ------------------------------------------------------------------------
\* point_in_polygon alone, on the square of side 10 given unclosed and
\* closed, for every point of a grid
\* ------------------------------------------------------------------------
Square10 == << <<0, 0>>, <<0, 10>>, <<10, 10>>, <<10, 0>> >>
Square10Closed == Append(Square10, Square10[1])

InitPip ==
    /\ InitEngine
    /\ ret \in [op : {"point_in_polygon"},
                point : [lat : (0 - GridMargin)..GridMax, lon : (0 - GridMargin)..GridMax, alt : {0}],
                evaluated : {{}}, open : {FALSE}, closed : {FALSE}]

\* point_in_polygon(point, ring) with the ring given unclosed
EvalOpen ==
    /\ ret.op = "point_in_polygon"
    /\ ret' = [ret EXCEPT !.open = point_in_polygon(ret.point, Square10),
                           !.evaluated = @ \cup {"open"}]
    /\ UNCHANGED <<routerVars, state, storeVars, wfVars, vehicles, missions, zones, spatial_index>>

\* point_in_polygon(point, ring) with the ring given closed
EvalClosed ==
    /\ ret.op = "point_in_polygon"
    /\ ret' = [ret EXCEPT !.closed = point_in_polygon(ret.point, Square10Closed),
                           !.evaluated = @ \cup {"closed"}]
    /\ UNCHANGED <<routerVars, state, storeVars, wfVars, vehicles, missions, zones, spatial_index>>

NextPip == EvalOpen \/ EvalClosed

SpecPip == InitPip /\ [][NextPip]_vars

\* ------------------------------------------------------------------------
\* The geofencing engine with clients adding zones and checking locations;
\* the router has not been started
\* ------------------------------------------------------------------------
NextGeofence ==
    \/ \E g \in Geofences : add_zone(g)
    \/ \E loc \in Locations : CheckBreach(loc)

SpecGeofence == Init /\ [][NextGeofence]_vars

\* ------------------------------------------------------------------------
\* The zones of the geofencing engine: clients add zones whose rings may be
\* degenerate
\* ------------------------------------------------------------------------
\* rings of two distinct points and of one point, besides the polygons above
RingPolygons == Polygons \cup {<< <<0, 0>>, <<2, 2>>, <<0, 0>> >>,
                               << <<0, 0>>, <<2, 2>>, <<2, 2>> >>,
                               << <<1, 1>>, <<1, 1>>, <<1, 1>> >>}

RingGeofences ==
    [id : {"z1", "z2"}, type : {"keep-out"}, polygon : RingPolygons, active : {TRUE},
     min_altitude : {DefaultMinAltitude}, max_altitude : {DefaultMaxAltitude}]

NextZones == \E g \in RingGeofences : add_zone(g)

SpecZones == Init /\ [][NextZones]_vars

\* ------------------------------------------------------------------------
\* Properties of the EventRouter
\* ------------------------------------------------------------------------
Count(seq, x) == Cardinality({i \in DOMAIN seq : seq[i] = x})

\* the event the step hands to _dispatch_event, 0 when it hands none
Taken == IF Len(dispatched') = Len(dispatched) + 1
         THEN dispatched'[Len(dispatched')] ELSE 0

\* the step takes an event and nothing more urgent stays queued
TakeIsMostUrgent ==
    Taken # 0 =>
        \A i \in DOMAIN event_queue' : event_queue'[i][1] >= events[Taken].priority

\* the dispatch sequence is non-decreasing in priority rank
DispatchNonDecreasing ==
    \A i, j \in DOMAIN dispatched :
        i < j => events[dispatched[i]].priority <= events[dispatched[j]].priority

\* C1: priority is the primary dispatch key: an event is taken from the
\* queue only when no strictly more urgent event is queued, and events that
\* were all queued before dispatching began are dispatched in non-decreasing
\* priority rank.
C1_PriorityIsPrimaryKey ==
    [][TakeIsMostUrgent]_vars /\ []DispatchNonDecreasing

\* C6: within equal priority the router is FIFO by publish order: an event
\* is taken only when no event of the same priority that was published
\* before it is still queued, whatever the timestamps.
C6_FifoByPublishOrder ==
    [][Taken # 0 =>
        \A i \in DOMAIN event_queue' :
            event_queue'[i][1] = events[Taken].priority => event_queue'[i][3] > Taken]_vars

\* a dispatch turn of thread k in which the handler raised
HandlerRaised(k) ==
    /\ threads[k].pc = "dispatch"
    /\ Len(errlog') = Len(errlog) + 1
    /\ errlog'[Len(errlog')].src = "handler"
    /\ errlog'[Len(errlog')].ev = threads[k].ev

\* after a raising handler the thread goes on with the next handler of the
\* same event, or back to the loop when there is none left
GoesOnAfterRaise(k) ==
    HandlerRaised(k) =>
        /\ threads[k].idx < Len(HandlersOf(threads[k])) =>
               /\ threads'[k].pc = "dispatch"
               /\ threads'[k].ev = threads[k].ev
               /\ threads'[k].idx = threads[k].idx + 1
        /\ threads[k].idx >= Len(HandlersOf(threads[k])) => threads'[k].pc = "loop"
        /\ event_queue' = event_queue
        /\ publish_raised' = publish_raised

\* no handler of the gathered list is skipped: a thread at position idx has
\* invoked the idx - 1 handlers before it
NoneSkipped ==
    \A k \in DOMAIN threads :
        threads[k].pc = "dispatch" =>
            /\ Len(delivered[threads[k].ev]) = threads[k].idx - 1
            /\ \A i \in 1..(threads[k].idx - 1) :
                   delivered[threads[k].ev][i] = HandlersOf(threads[k])[i]

\* every error is handed to every registered observer
AllObserversNotified ==
    Len(errlog') = Len(errlog) + 1 => errlog'[Len(errlog')].notified = error_handlers

\* a dispatch thread ends only because the router was stopped
ThreadEndsOnlyOnStop ==
    \A k \in DOMAIN threads :
        (threads[k].pc # "exited" /\ threads'[k].pc = "exited") => ~running

\* C3: a raising handler is contained: the remaining handlers of the event
\* are still invoked, the loop goes on, the error reaches every registered
\* error observer (a raising observer does not stop the others), and the
\* outcome of publish is not changed by it.
C3_HandlerFailureContained ==
    /\ [][\A k \in DOMAIN threads : GoesOnAfterRaise(k)]_vars
    /\ []NoneSkipped
    /\ [][AllObserversNotified]_vars
    /\ [][ThreadEndsOnlyOnStop]_vars

\* C3 witness: a handler raised for the first dispatched event, a later
\* handler of the same event was still invoked, a raising observer and the
\* observer after it were both notified, and a second event was dispatched.
C3_Witness ==
    /\ Len(dispatched) >= 2
    /\ \E i \in DOMAIN errlog :
          /\ errlog[i].src = "handler"
          /\ errlog[i].ev = dispatched[1]
          /\ errlog[i].notified = <<"oBad", "oOk">>
    /\ \E i, j \in DOMAIN delivered[dispatched[1]] :
          /\ i < j
          /\ delivered[dispatched[1]][i] = "hBad"
    /\ Len(delivered[dispatched[2]]) > 0

\* the handlers registered for an event: its exact type, then the wildcard
RegisteredFor(type) ==
    (IF type \in DOMAIN registered THEN registered[type] ELSE <<>>)
    \o (IF WILDCARD \in DOMAIN registered THEN registered[WILDCARD] ELSE <<>>)

\* C7: for every dispatched event each handler is invoked at most as often
\* as it is subscribed to the event's exact type or to the wildcard (once
\* per subscription), and no other handler is invoked, however many events
\* were dispatched before.
C7_ExactlyTheSubscribedHandlers ==
    \A e \in DOMAIN delivered :
        \A h \in UserHandlers \cup EngineHandlers :
            Count(delivered[e], h) <= Count(RegisteredFor(events[e].type), h)

\* ------------------------------------------------------------------------
\* Properties of the WorkflowCoordinator
\* ------------------------------------------------------------------------
Reverse(seq) == [i \in 1..Len(seq) |-> seq[Len(seq) + 1 - i]]

\* the steps among 1..n that declare a rollback handler, highest first
RECURSIVE RbStepsBelow(_, _)
RbStepsBelow(steps, n) ==
    IF n = 0 THEN <<>>
    ELSE (IF steps[n].rb THEN <<n>> ELSE <<>>) \o RbStepsBelow(steps, n - 1)

\* the call t returns in this step
Returns(t) == tasks[t].pc # "done" /\ tasks'[t].pc = "done"

\* C2: when step k of a workflow raises, the call invokes the rollback
\* handlers of the steps 1..k-1 that declare one exactly once each, k-1
\* first and 1 last, starts no step after k, and returns with the workflow
\* in status rolled_back.
C2_RollbackInReverseOrder ==
    [][\A t \in DOMAIN tasks :
          (Returns(t) /\ tasks[t].cause = "step") =>
              /\ tasks'[t].invoked
                    = RbStepsBelow(workflows[tasks[t].wid].steps, tasks[t].i - 1)
              /\ tasks'[t].started = [n \in 1..tasks[t].i |-> n]
              /\ tasks'[t].result = "failure"
              /\ workflows'[tasks[t].wid].status = "rolled_back"]_vars

\* C2 witness: a call whose step 3 raised has rolled back steps 2 and 1, in
\* that order, and returned.
C2_Witness ==
    \E t \in DOMAIN tasks :
        /\ tasks[t].pc = "done"
        /\ tasks[t].cause = "step"
        /\ tasks[t].i = 3
        /\ tasks[t].invoked = <<2, 1>>
        /\ workflows[tasks[t].wid].status = "rolled_back"

\* the steps of workflow w whose status is running
RunningSteps(w) == {n \in DOMAIN workflows[w].steps : workflows[w].steps[n].status = "running"}

\* C4: the steps of one workflow are strictly sequential: at most one step
\* of a workflow has status running, and a step handler is invoked only
\* when every earlier step of the workflow has returned and has its result
\* stored in the context.
C4_StepsStrictlySequential ==
    /\ [](\A w \in DOMAIN workflows : Cardinality(RunningSteps(w)) <= 1)
    /\ [][\A t \in DOMAIN tasks :
             (tasks[t].pc = "step" /\ tasks'[t].pc = "await") =>
                 \A n \in 1..(tasks[t].i - 1) :
                     n \in workflows[tasks[t].wid].context]_vars

\* C5: a rollback handler that raises is recorded as rollback_failed and
\* the rollback handlers of all earlier completed steps are still invoked:
\* when the call returns, every completed step that declares a rollback
\* handler has one entry in the report, and the workflow is rolled_back.
C5_RollbackFailureDoesNotStopRollback ==
    [][\A t \in DOMAIN tasks :
          (Returns(t) /\ tasks'[t].result = "failure") =>
              /\ [n \in DOMAIN tasks'[t].report |-> tasks'[t].report[n].step]
                    = RbStepsBelow(workflows[tasks[t].wid].steps,
                                   Len(tasks[t].completed))
              /\ tasks'[t].invoked
                    = RbStepsBelow(workflows[tasks[t].wid].steps,
                                   Len(tasks[t].completed))
              /\ workflows'[tasks[t].wid].status = "rolled_back"]_vars

\* C5 witness: the rollback handler of step 2 raised, the one of step 1 was
\* still run, and the call returned with the workflow rolled back.
C5_Witness ==
    \E t \in DOMAIN tasks :
        /\ tasks[t].pc = "done"
        /\ tasks[t].report = <<[step |-> 2, status |-> "rollback_failed"],
                               [step |-> 1, status |-> "rolled_back"]>>
        /\ workflows[tasks[t].wid].status = "rolled_back"

\* the edges of the workflow status machine
StatusEdges == {<<"created", "running">>, <<"running", "completed">>,
                <<"running", "failed">>, <<"failed", "rolled_back">>}

\* C8: the status of a workflow changes only along created -> running,
\* running -> completed, running -> failed and failed -> rolled_back.
C8_StatusOnlyAlongEdges ==
    [][\A w \in DOMAIN workflows :
          workflows'[w].status # workflows[w].status =>
              <<workflows[w].status, workflows'[w].status>> \in StatusEdges]_vars

\* ------------------------------------------------------------------------
\* Properties of the mission workflow
\* ------------------------------------------------------------------------
\* the workflow of call t is a mission workflow on a registered mission and
\* a registered vehicle
OnRegistered(t) ==
    /\ workflows[tasks[t].wid].mission \in DOMAIN missions
    /\ workflows[tasks[t].wid].vehicle \in DOMAIN vehicles

\* C9: when execute_mission_workflow returns success, the six steps have
\* run once each in order, the mission is executing and assigned to the
\* vehicle, the vehicle is flying and assigned to the mission, and the
\* workflow is completed.
C9_SuccessfulMissionIsFlying ==
    [][\A t \in DOMAIN tasks :
          (Returns(t) /\ tasks'[t].result = "success"
                      /\ workflows[tasks[t].wid].mission # 0) =>
              LET m == workflows[tasks[t].wid].mission
                  v == workflows[tasks[t].wid].vehicle
              IN  /\ OnRegistered(t)
                  /\ tasks'[t].started = <<1, 2, 3, 4, 5, 6>>
                  /\ tasks'[t].completed = <<1, 2, 3, 4, 5, 6>>
                  /\ missions'[m].status = "executing"
                  /\ missions'[m].vehicle_id = v
                  /\ vehicles'[v].status = "flying"
                  /\ vehicles'[v].mission_id = m
                  /\ workflows'[tasks[t].wid].status = "completed"]_vars

\* C9 witness: a mission workflow has returned success.
C9_Witness ==
    \E t \in DOMAIN tasks :
        /\ tasks[t].pc = "done"
        /\ tasks[t].result = "success"
        /\ workflows[tasks[t].wid].mission # 0
        /\ vehicles[workflows[tasks[t].wid].vehicle].status = "flying"

\* C10: when execute_mission_workflow, called for an unassigned mission and
\* an idle, unassigned vehicle, fails, the compensations of the completed
\* steps have run in reverse order, and at the return the vehicle has no
\* mission, the mission has no vehicle, and the vehicle is neither armed
\* nor flying.
C10_FailedMissionIsCompensated ==
    [][\A t \in DOMAIN tasks :
          (Returns(t) /\ tasks'[t].result = "failure"
                      /\ tasks[t].fresh) =>
              LET m == workflows[tasks[t].wid].mission
                  v == workflows[tasks[t].wid].vehicle
              IN  /\ tasks'[t].invoked
                        = RbStepsBelow(workflows[tasks[t].wid].steps,
                                       Len(tasks[t].completed))
                  /\ vehicles'[v].mission_id = 0
                  /\ missions'[m].vehicle_id = 0
                  /\ vehicles'[v].status \notin {"armed", "flying"}]_vars

\* ------------------------------------------------------------------------
\* Results of execute_workflow
\* ------------------------------------------------------------------------
\* C11: a failed execute_workflow returns a failure that carries the error
\* caught and a rollback report with exactly one entry, in reverse
\* completion order, for each completed step that declares a rollback
\* function, each rolled_back or rollback_failed, and no entry for the step
\* that raised or a later one.
C11_FailureCarriesRollbackReport ==
    [][\A t \in DOMAIN tasks :
          (Returns(t) /\ tasks'[t].result # "success") =>
              LET rep == tasks'[t].report
                  steps == workflows[tasks[t].wid].steps
              IN  /\ tasks'[t].result = "failure"
                  /\ tasks'[t].cause \in {"step", "publish"}
                  /\ Len(rep) = Len(RbStepsBelow(steps, Len(tasks[t].completed)))
                  /\ \A n \in DOMAIN rep :
                        /\ rep[n].step = RbStepsBelow(steps, Len(tasks[t].completed))[n]
                        /\ rep[n].status \in {"rolled_back", "rollback_failed"}
                        /\ steps[rep[n].step].rb
                        /\ tasks[t].cause = "step" => rep[n].step < tasks[t].i
                  /\ \A n \in DOMAIN rep, k \in DOMAIN rep :
                        n < k => rep[n].step > rep[k].step]_vars

\* C11 witness: step 3 of a workflow whose step 1 declares no rollback
\* function raised; the call returned failure with the one entry of step 2.
C11_Witness ==
    \E t \in DOMAIN tasks :
        /\ tasks[t].pc = "done"
        /\ tasks[t].result = "failure"
        /\ tasks[t].cause = "step"
        /\ tasks[t].i = 3
        /\ ~workflows[tasks[t].wid].steps[1].rb
        /\ Len(tasks[t].report) = 1
        /\ tasks[t].report[1].step = 2

\* C12: if no step raises, execute_workflow invokes every step once in list
\* order, marks every step and the workflow completed, invokes no rollback
\* handler, and returns success with every <stepName>_result in the context.
C12_NoRaiseMeansSuccess ==
    [][\A t \in DOMAIN tasks :
          (Returns(t) /\ tasks[t].cause # "step") =>
              LET w == tasks[t].wid
                  n == Len(workflows[w].steps)
              IN  /\ tasks'[t].result = "success"
                  /\ tasks'[t].started = [k \in 1..n |-> k]
                  /\ tasks'[t].invoked = <<>>
                  /\ workflows'[w].status = "completed"
                  /\ workflows'[w].context = 1..n]_vars

\* ------------------------------------------------------------------------
\* Properties of the GeofencingEngine
\* ------------------------------------------------------------------------
\* the location lies strictly inside, strictly outside the rectangle a
\* polygon of the model spans
StrictlyInside(loc, polygon) ==
    LET lats == {polygon[i][1] : i \in DOMAIN polygon}
        lons == {polygon[i][2] : i \in DOMAIN polygon}
    IN  /\ SetMin(lats) < loc.lat /\ loc.lat < SetMax(lats)
        /\ SetMin(lons) < loc.lon /\ loc.lon < SetMax(lons)

StrictlyOutside(loc, polygon) ==
    LET lats == {polygon[i][1] : i \in DOMAIN polygon}
        lons == {polygon[i][2] : i \in DOMAIN polygon}
    IN  \/ loc.lat < SetMin(lats) \/ loc.lat > SetMax(lats)
        \/ loc.lon < SetMin(lons) \/ loc.lon > SetMax(lons)

\* the zone is evaluated for the location: active and the altitude in band
Evaluated(zone, loc) ==
    /\ zone.active
    /\ zone.min_altitude <= loc.alt
    /\ loc.alt <= zone.max_altitude

\* the records a sequence of breaches holds for a zone
RecordsOf(breaches, zone) == {n \in DOMAIN breaches : breaches[n].zone_id = zone.id}

\* the last call was check_breach; the zones are those it looked at
Checked == ret.op = "check_breach"

\* C13: check_breach returns, for an evaluated keep-out zone containing the
\* location, exactly one entry_breach/critical/RTL record; for an evaluated
\* keep-in zone not containing it exactly one exit_breach/critical/RTL
\* record; none for a keep-out zone not containing and a keep-in zone
\* containing it; never a critical record for a warning zone; and the empty
\* list exactly when no zone is breached.
C13_BreachClassification ==
    Checked =>
        /\ ~ret.raised
        /\ \A i \in DOMAIN zones :
              LET z == zones[i]
                  recs == RecordsOf(ret.value, z)
              IN  /\ (Evaluated(z, ret.loc) /\ z.type = "keep-out"
                        /\ StrictlyInside(ret.loc, z.polygon)) =>
                        /\ Cardinality(recs) = 1
                        /\ \A n \in recs :
                              ret.value[n] = Breach(z, "entry_breach", "critical", "RTL")
                  /\ (Evaluated(z, ret.loc) /\ z.type = "keep-in"
                        /\ StrictlyOutside(ret.loc, z.polygon)) =>
                        /\ Cardinality(recs) = 1
                        /\ \A n \in recs :
                              ret.value[n] = Breach(z, "exit_breach", "critical", "RTL")
                  /\ (z.type = "keep-out" /\ StrictlyOutside(ret.loc, z.polygon)) =>
                        recs = {}
                  /\ (z.type = "keep-in" /\ StrictlyInside(ret.loc, z.polygon)) =>
                        recs = {}
                  /\ z.type = "warning" =>
                        \A n \in recs : ret.value[n].severity # "critical"
        /\ (ret.value = <<>>) <=> (\A i \in DOMAIN zones : BreachOf(zones[i], ret.loc) = <<>>)

\* C14: every breach record check_breach returns has exactly one
\* geofence.breach event, of router priority critical whatever its own
\* severity, with the record as payload; a call that finds no breach
\* publishes no event.
C14_OneCriticalEventPerBreach ==
    (Checked /\ ~ret.raised) =>
        /\ Len(events) = ret.first + Len(ret.value)
        /\ \A n \in DOMAIN ret.value :
              LET id == ret.first + n
              IN  /\ events[id].type = "geofence.breach"
                  /\ events[id].priority = CRITICAL
                  /\ events[id].data = ret.value[n]
                  /\ Cardinality({q \in DOMAIN event_queue : event_queue[q][3] = id}) = 1
                  /\ event_queue[CHOOSE q \in DOMAIN event_queue : event_queue[q][3] = id][1]
                        = CRITICAL

\* C14 witness: a call returned a proximity_warning of severity warning and
\* its event is queued.
C14_Witness ==
    /\ Checked
    /\ ~ret.raised
    /\ \E n \in DOMAIN ret.value :
          /\ ret.value[n].type = "proximity_warning"
          /\ ret.value[n].severity = "warning"
          /\ events[ret.first + n].data = ret.value[n]

\* the events the last check_breach call published
PublishedByCheck == (ret.first + 1)..Len(events)

\* C15: a zone that is inactive, or whose altitude band does not contain the
\* location, contributes no breach and no event to check_breach.
C15_OnlyEvaluatedZones ==
    Checked =>
        \A i \in DOMAIN zones :
            ~Evaluated(zones[i], ret.loc) =>
                /\ RecordsOf(ret.found, zones[i]) = {}
                /\ \A id \in PublishedByCheck : events[id].data.zone_id # zones[i].id

\* C15 witness: an active keep-in zone and an inactive keep-in zone, the
\* location outside both and above the band: the call found nothing.
C15_Witness ==
    /\ Checked
    /\ ret.loc.alt > DefaultMaxAltitude
    /\ \E i \in DOMAIN zones, k \in DOMAIN zones :
          /\ zones[i].type = "keep-in" /\ zones[i].active
          /\ zones[k].type = "keep-in" /\ ~zones[k].active
          /\ StrictlyOutside(ret.loc, zones[i].polygon)
          /\ StrictlyOutside(ret.loc, zones[k].polygon)
    /\ ret.found = <<>>
    /\ PublishedByCheck = {}

\* the polygon is one add_zone must reject
InvalidPolygon(polygon) ==
    \/ Len(polygon) < 3
    \/ \E i \in DOMAIN polygon :
          \/ polygon[i][1] < -90 \/ polygon[i][1] > 90
          \/ polygon[i][2] < -180 \/ polygon[i][2] > 180

\* the zone stored under an id
ZoneOf(zs, id) == zs[CHOOSE i \in DOMAIN zs : zs[i].id = id]

\* C16: add_zone returns false for an invalid polygon and leaves the zones,
\* the bounding-box index and the store unchanged; for a valid polygon it
\* returns true, stores the zone with its ring closed, the first vertex
\* appended when missing, and records the min/max latitude and longitude.
C16_AddZoneValidates ==
    [][(ret' # ret /\ ret'.op = "add_zone") =>
          LET g == ret'.arg
              n == Len(g.polygon)
              closed == IF g.polygon[1] = g.polygon[n] THEN g.polygon
                        ELSE Append(g.polygon, g.polygon[1])
          IN  IF InvalidPolygon(g.polygon)
              THEN /\ ret'.value = FALSE
                   /\ UNCHANGED <<zones, spatial_index, state, storeVars>>
              ELSE /\ ret'.value = TRUE
                   /\ \E i \in DOMAIN zones' : zones'[i].id = g.id
                   /\ ZoneOf(zones', g.id) = [g EXCEPT !.polygon = closed]
                   /\ state'.geofences[g.id] = [g EXCEPT !.polygon = closed]
                   /\ spatial_index'[g.id].min_lat
                         = SetMin({g.polygon[i][1] : i \in 1..n})
                   /\ spatial_index'[g.id].max_lat
                         = SetMax({g.polygon[i][1] : i \in 1..n})
                   /\ spatial_index'[g.id].min_lon
                         = SetMin({g.polygon[i][2] : i \in 1..n})
                   /\ spatial_index'[g.id].max_lon
                         = SetMax({g.polygon[i][2] : i \in 1..n})]_vars

\* C16 witness: zone z2, given with an unclosed square, is stored closed,
\* and a later add_zone of an invalid polygon was rejected.
C16_Witness ==
    /\ ret.op = "add_zone"
    /\ InvalidPolygon(ret.arg.polygon)
    /\ ret.value = FALSE
    /\ \E i \in DOMAIN zones : zones[i].id = "z2" /\ zones[i].polygon = SquareClosed
    /\ spatial_index["z2"].max_lat = 2

\* C17: on the square [(0,0),(0,10),(10,10),(10,0)] point_in_polygon is true
\* for every grid point strictly inside and false for every grid point
\* strictly outside, and for every point, those on a vertex or an edge
\* included, it returns one Boolean that is the same for the ring given
\* closed and unclosed.
C17_PointInSquare ==
    ret.op = "point_in_polygon" =>
        /\ ret.open \in BOOLEAN /\ ret.closed \in BOOLEAN
        /\ ("open" \in ret.evaluated /\ StrictlyInside(ret.point, Square10))
              => ret.open = TRUE
        /\ ("closed" \in ret.evaluated /\ StrictlyInside(ret.point, Square10))
              => ret.closed = TRUE
        /\ ("open" \in ret.evaluated /\ StrictlyOutside(ret.point, Square10))
              => ret.open = FALSE
        /\ ("closed" \in ret.evaluated /\ StrictlyOutside(ret.point, Square10))
              => ret.closed = FALSE
        /\ ret.evaluated = {"open", "closed"} => ret.open = ret.closed

\* C17 witness: the vertex (10,10) has been evaluated on both rings.
C17_Witness ==
    /\ ret.op = "point_in_polygon"
    /\ ret.point.lat = 10 /\ ret.point.lon = 10
    /\ ret.evaluated = {"open", "closed"}
    /\ ret.open = ret.closed

\* the step is a call of op that the call's record shows
Called(op) == ret' # ret /\ ret'.op = op

\* the router is as it was
RouterUntouched ==
    /\ events' = events
    /\ event_queue' = event_queue
    /\ event_history' = event_history

\* the call published exactly one event, of the type given, carrying data
PublishedOne(type, data) ==
    /\ Len(events') = Len(events) + 1
    /\ SubSeq(events', 1, Len(events)) = events
    /\ events'[Len(events')].type = type
    /\ events'[Len(events')].data = data
    /\ event_history' = Append(event_history, Len(events'))
    /\ Len(event_queue') = Len(event_queue) + 1

\* C18: register_vehicle of an id that is already registered returns false
\* without raising, leaves the vehicles and the State Store as they were and
\* publishes nothing; of a new id it returns true, stores the vehicle and
\* publishes exactly one vehicle.registered event. No step removes a
\* registered vehicle, and get_vehicle of a registered id returns it.
C18_RegisterVehicle ==
    [][/\ Called("register_vehicle") =>
            IF ret'.id \in DOMAIN vehicles
            THEN /\ ~ret'.raised /\ ret'.value = FALSE
                 /\ vehicles' = vehicles
                 /\ state' = state
                 /\ RouterUntouched
            ELSE /\ ~ret'.raised /\ ret'.value = TRUE
                 /\ DOMAIN vehicles' = DOMAIN vehicles \cup {ret'.id}
                 /\ vehicles'[ret'.id] = NewVehicle(ret'.arg)
                 /\ PublishedOne("vehicle.registered", [vehicle_id |-> ret'.id])
       /\ \A v \in DOMAIN vehicles : v \in DOMAIN vehicles'
       /\ Called("get_vehicle") =>
            (ret'.value <=> ret'.id \in DOMAIN vehicles)]_vars

\* C19: a registry call that returns true has published exactly one event:
\* vehicle.registered, vehicle.status.changed with the old and the new
\* status, or vehicle.location.updated; update_status and update_location of
\* an id that is not registered return false, change no vehicle and publish
\* nothing; update_status of a registered id sets the requested status
\* whatever the current one is and never returns false.
C19_OneEventPerMutation ==
    [][/\ (Called("register_vehicle") /\ ret'.value) =>
            PublishedOne("vehicle.registered", [vehicle_id |-> ret'.id])
       /\ (Called("update_status") /\ ret'.value) =>
            PublishedOne("vehicle.status.changed",
                         [vehicle_id |-> ret'.id,
                          old_status |-> vehicles[ret'.id].status,
                          new_status |-> ret'.arg])
       /\ (Called("update_location") /\ ret'.value) =>
            PublishedOne("vehicle.location.updated",
                         [vehicle_id |-> ret'.id, location |-> ret'.arg])
       /\ ((Called("update_status") \/ Called("update_location"))
              /\ ret'.id \notin DOMAIN vehicles) =>
            /\ ~ret'.raised /\ ret'.value = FALSE
            /\ vehicles' = vehicles
            /\ state' = state
            /\ RouterUntouched
       /\ (Called("update_status") /\ ret'.id \in DOMAIN vehicles) =>
            /\ ret'.raised \/ ret'.value
            /\ vehicles'[ret'.id].status = ret'.arg]_vars

\* C19 witness: update_status from flying back to idle has returned true and
\* its event carries both statuses.
C19_Witness ==
    /\ ret.op = "update_status"
    /\ ret.value
    /\ Len(events) = ret.first + 1
    /\ events[Len(events)].type = "vehicle.status.changed"
    /\ events[Len(events)].data.old_status = "flying"
    /\ events[Len(events)].data.new_status = "idle"
    /\ vehicles[ret.id].status = "idle"

Entries(seq) == {seq[i] : i \in DOMAIN seq}

\* zone z is breached by location loc with the severity given
BreachedWith(z, loc, severity) ==
    /\ BreachOf(z, loc) # <<>>
    /\ BreachOf(z, loc)[1].severity = severity

\* C21: validate_mission returns, without raising, a result that is valid
\* exactly when its issue list is empty; the issues are one for each
\* waypoint above the vehicle's max altitude, the battery issue and one for
\* each critical breach of a waypoint; a warning breach and a missing
\* required sensor are warnings and no issues.
C21_ValidIffNoIssues ==
    ret.op = "validate_mission" =>
        LET wps == ret.mission.waypoints
        IN  /\ ~ret.raised
            /\ ret.valid <=> ret.issues = <<>>
            /\ \A e \in Entries(ret.issues) : e[1] \in {"altitude", "battery", "geofence"}
            /\ \A e \in Entries(ret.warnings) : e[1] \in {"warning_zone", "sensor"}
            /\ \A i \in DOMAIN wps :
                  /\ wps[i].alt > ret.vehicle.max_altitude
                        <=> <<"altitude", i, "">> \in Entries(ret.issues)
                  /\ \A k \in DOMAIN zones :
                        /\ BreachedWith(zones[k], wps[i], "critical")
                              <=> <<"geofence", i, zones[k].id>> \in Entries(ret.issues)
                        /\ BreachedWith(zones[k], wps[i], "warning")
                              <=> <<"warning_zone", i, zones[k].id>>
                                      \in Entries(ret.warnings)
            /\ ~(ret.mission.required_sensors \subseteq ret.vehicle.sensors)
                  <=> <<"sensor", 0, "camera">> \in Entries(ret.warnings)

\* ------------------------------------------------------------------------
\* GlobalStateManager
\* ------------------------------------------------------------------------
\* what is stored in the tree at the dotted key: state "absent" when a key of
\* the path is missing, "blocked" when a value on the way is no dict
RECURSIVE StoredAt(_, _, _, _)
StoredAt(objs, value, keys, i) ==
    IF i > Len(keys) THEN [state |-> "found", value |-> value]
    ELSE IF value.t # "dict" THEN [state |-> "blocked", value |-> None]
    ELSE IF keys[i] \notin DOMAIN objs[value.v] THEN [state |-> "absent", value |-> None]
    ELSE StoredAt(objs, objs[value.v][keys[i]], keys, i + 1)

Lookup(objs, keys) == StoredAt(objs, Ref(Root), keys, 1)

\* the dict objects there were are as they were
ObjectsUntouched == SubSeq(objects', 1, Len(objects)) = objects

\* C30: get(key, default) does not raise and does not modify the store; it
\* returns the stored value when the whole key path resolves and the given
\* default in every other case: last key missing, intermediate key missing,
\* intermediate value no map.
C30_GetReturnsStoredOrDefault ==
    [][Called("get") =>
          /\ ~ret'.raised
          /\ ObjectsUntouched
          /\ state_history' = state_history
          /\ ret'.value = IF Lookup(objects, ret'.key).state = "found"
                          THEN Lookup(objects, ret'.key).value
                          ELSE ret'.arg]_vars

\* the audit entry the set call of this step has appended
LastAudit == state_history'[Len(state_history')]

RECURSIVE ReachedFrom(_, _, _)
ReachedFrom(objs, seen, n) ==
    LET dicts == seen \cup {v \in 1..Len(objs) :
                                \E o \in seen : \E k \in DOMAIN objs[o] :
                                    objs[o][k] = Ref(v)}
    IN  IF n = 0 \/ dicts = seen THEN seen ELSE ReachedFrom(objs, dicts, n - 1)

InTree(objs) == ReachedFrom(objs, {Root}, Len(objs))

\* the step writes to a dict object of the state tree
WritesTree ==
    \E o \in InTree(objects) : objects'[o] # objects[o]

\* two update calls on the same key, and no other call, have both returned
TwoUpdatesDone ==
    /\ Len(calls) = 2
    /\ \A t \in DOMAIN calls : calls[t].op = "update" /\ calls[t].pc = "done"
    /\ calls[1].key = calls[2].key

\* C22: every write to the state tree is made while the store's lock is
\* held, and two concurrent update calls on the same key with disjoint
\* fields both take effect.
C22_StoreWritesAreSerialized ==
    [][/\ WritesTree => state_lock # 0
       /\ TwoUpdatesDone' =>
            LET d == Lookup(objects', calls'[1].key)
            IN  /\ d.state = "found"
                /\ d.value.t = "dict"
                /\ \A t \in DOMAIN calls' :
                      calls'[t].field \in DOMAIN objects'[d.value.v]]_vars

\* a publish call is made in the step: one more Event object exists
Published == Len(events') = Len(events) + 1

\* deque(maxlen=1000).append
HistoryAfter(hist, id) ==
    LET h == Append(hist, id)
    IN  IF Len(h) > HistoryMax THEN Tail(h) ELSE h

\* C24: publish appends the event to the history at publish time, started
\* router or not, dispatched event or not; the history holds at most 1000
\* events, in publish order, the oldest evicted first.
C24_PublishAppendsToHistory ==
    [][Published =>
          /\ event_history' = HistoryAfter(event_history, Len(events'))
          /\ Len(event_history') <= HistoryMax]_vars

\* thread k runs the last handler gathered for an event in the step
DispatchEnds(k) ==
    /\ k \in DOMAIN threads
    /\ threads[k].pc = "dispatch"
    /\ threads'[k].pc # "dispatch"

\* C26: once the dispatch of an event has run all the handlers gathered for
\* it, the event's processed flag is true, whether or not handlers threw; the
\* flag of an event that has not been dispatched yet is false.
C26_ProcessedAfterDispatch ==
    [][/\ \A k \in DOMAIN threads :
             DispatchEnds(k) => events'[threads[k].ev].processed
       /\ \A id \in DOMAIN events' :
             (\A i \in DOMAIN dispatched' : dispatched'[i] # id)
                 => ~events'[id].processed]_vars

\* the dispatch loops that have not returned
LiveLoops == {k \in DOMAIN threads : threads[k].pc # "exited"}

\* the last stop call has returned and no start call was made since
Stopped == ~running /\ Joined

\* C25: start and stop control a single dispatch loop: whatever the sequence
\* of start and stop calls, at most one loop is taking events from the
\* queue, and once stop has returned no event is dispatched until the next
\* start call.
C25_SingleDispatchLoop ==
    [][/\ Cardinality(LiveLoops') <= 1
       /\ Stopped => dispatched' = dispatched]_vars

\* call t of execute_workflow takes a step of its failure handling: into the
\* except clause, or within the rollback
FailureStep(t) ==
    /\ tasks'[t] # tasks[t]
    /\ \/ tasks'[t].pc \in {"rollback", "rbawait"}
       \/ tasks[t].pc \in {"rollback", "rbawait"}

\* C27: no internal error aborts an unrelated workflow or the dispatch loop:
\* the failure of a step and the rollback of one workflow leave the status,
\* the step statuses and the context of every other workflow as they were,
\* and the dispatch loop of the started router has not returned.
C27_FailureIsContained ==
    [][/\ \A t \in DOMAIN tasks :
             FailureStep(t) =>
                 \A w \in DOMAIN workflows :
                     w # tasks[t].wid => workflows'[w] = workflows[w]
       /\ running' => \A k \in DOMAIN threads' : threads'[k].pc # "exited"]_vars

\* a workflow failed and was rolled back, with a rollback handler called,
\* while another workflow is running with a step completed, and the dispatch
\* loop is delivering an event
C27_Witness ==
    \E t \in DOMAIN tasks : \E w \in DOMAIN workflows : \E k \in DOMAIN threads :
        /\ tasks[t].result = "failure"
        /\ Len(tasks[t].report) > 0
        /\ workflows[tasks[t].wid].status = "rolled_back"
        /\ w # tasks[t].wid
        /\ workflows[w].status = "running"
        /\ \E i \in DOMAIN workflows[w].steps : workflows[w].steps[i].status = "completed"
        /\ threads[k].pc = "dispatch"

\* C28: create_structure_scan makes exactly orbits * points_per_orbit
\* waypoints with the sequence indices 0..n-1 in the order of generation;
\* the waypoints of one orbit share one altitude, the first orbit is at
\* altitude_min, the last one at altitude_max when there are several orbits,
\* and every waypoint is at altitude_min when there is one orbit.
C28_StructureScanWaypoints ==
    ret.op = "create_structure_scan" =>
        LET w == ret.waypoints
            ppo == ret.points_per_orbit
            altitude_max == ret.altitude_min + ret.altitude_range
        IN  /\ Len(w) = ret.orbits * ppo
            /\ \A n \in DOMAIN w : w[n].sequence = n - 1
            /\ \A n, k \in DOMAIN w :
                  (n - 1) \div ppo = (k - 1) \div ppo => w[n].alt = w[k].alt
            /\ w[1].alt = FromInt(ret.altitude_min)
            /\ ret.orbits > 1 => w[Len(w)].alt = FromInt(altitude_max)
            /\ ret.orbits = 1 => \A n \in DOMAIN w : w[n].alt = FromInt(ret.altitude_min)

\* the ring without its closing vertex
BeforeClosing(polygon) ==
    IF Len(polygon) > 1 /\ polygon[1] = polygon[Len(polygon)]
    THEN SubSeq(polygon, 1, Len(polygon) - 1)
    ELSE polygon

\* the Geofence invariant on a polygon
GeofenceInvariant(polygon) ==
    /\ Cardinality({BeforeClosing(polygon)[i] : i \in DOMAIN BeforeClosing(polygon)}) >= 3
    /\ \A i \in DOMAIN polygon :
          /\ -90 <= polygon[i][1] /\ polygon[i][1] <= 90
          /\ -180 <= polygon[i][2] /\ polygon[i][2] <= 180
    /\ polygon[1] = polygon[Len(polygon)]

\* C29: every stored zone satisfies the Geofence invariant: at least three
\* distinct vertices before closing, every vertex within the latitude and
\* longitude ranges, and a closed ring; add_zone accepts no other polygon.
C29_StoredZonesAreValid ==
    /\ \A i \in DOMAIN zones : GeofenceInvariant(zones[i].polygon)
    /\ (ret.op = "add_zone" /\ ret.value) => GeofenceInvariant(ret.arg.polygon)
           \/ GeofenceInvariant(Append(ret.arg.polygon, ret.arg.polygon[1]))

\* the ids held by the queue
Queued(q) == {q[i][3] : i \in DOMAIN q}

\* C36: publish never fails for its caller: whatever the event and the queue
\* content, also when the priority and the timestamp of the event equal
\* those of a queued one, the call enqueues the event and records it in the
\* history without raising.
C36_PublishNeverRaises ==
    [][Published =>
          /\ ~publish_raised'
          /\ Len(events') \in Queued(event_queue')
          /\ event_history'[Len(event_history')] = Len(events')]_vars

\* C37: when execute_workflow returns, no step of the workflow is left in
\* status running: a step that ran to the end is completed, a step after the
\* one that raised is still as it was, and the step whose function raised
\* has status failed. (WorkflowStep.error is assigned nowhere in the source,
\* so the status is the only trace a failed step could carry.)
C37_NoStepLeftRunning ==
    [][\A t \in DOMAIN tasks :
          Returns(t) =>
              LET steps == workflows'[tasks[t].wid].steps
              IN  /\ \A n \in DOMAIN steps : steps[n].status # "running"
                  /\ \A n \in DOMAIN tasks[t].completed :
                        steps[tasks[t].completed[n]].status = "completed"
                  /\ tasks[t].cause = "step" =>
                        steps[tasks[t].i].status = "failed"]_vars

\* the content of an audited value: the fields of the map it refers to, or
\* the value itself when it is no map
Content(objs, value) == IF value.t = "dict" THEN objs[value.v] ELSE value

\* C38: update(key, partial) on an existing map merges the partial map into
\* it and appends one audit entry whose old value is the map as it was
\* before the call and whose new value is the merged map; update on a key
\* whose value is no map changes neither the store nor the audit history.
C38_UpdateMergesAndAudits ==
    [][(Called("update") /\ Lookup(objects, ret'.key).state = "found") =>
          LET before == Lookup(objects, ret'.key).value
          IN  IF before.t = "dict"
              THEN /\ ~ret'.raised
                   /\ Lookup(objects', ret'.key).value = before
                   /\ objects'[before.v] = ("f" :> Num(1)) @@ objects[before.v]
                   /\ SubSeq(state_history', 1, Len(state_history') - 1)
                         = IF Len(state_history) < AuditMax THEN state_history
                           ELSE Tail(state_history)
                   /\ LastAudit.key = ret'.key
                   /\ Content(objects', LastAudit.new_value) = objects'[before.v]
                   /\ Content(objects', LastAudit.old_value) = objects[before.v]
              ELSE /\ ObjectsUntouched
                   /\ state_history' = state_history]_vars

\* the types of the events the registry publishes
VehicleEvents == {"vehicle.registered", "vehicle.status.changed",
                  "vehicle.location.updated"}

\* C31: when the started router has dispatched a vehicle event, the
\* registry's fleet aggregation handler has been run for it and
\* system.fleet_stats in the State Store equals the aggregate of the registry.
C31_FleetStatsFollowVehicleEvents ==
    [][\A k \in DOMAIN threads :
          (DispatchEnds(k) /\ events[threads[k].ev].type \in VehicleEvents) =>
              /\ \E n \in DOMAIN delivered'[threads[k].ev] :
                    delivered'[threads[k].ev][n] = "_handle_vehicle_event"
              /\ "fleet_stats" \in DOMAIN state'.system
              /\ state'.system.fleet_stats = aggregate_fleet_stats(vehicles')]_vars

\* the workflow of call t is a mission workflow whose mission id is not in
\* the mission registry, whose vehicle id is not registered, or whose
\* mission does not pass validate_mission
FailsValidation(t) ==
    LET w == workflows[tasks[t].wid]
    IN  /\ w.mission # 0
        /\ IF w.mission \in DOMAIN missions /\ w.vehicle \in DOMAIN vehicles
           THEN ~Valid(missions[w.mission].profile)
           ELSE TRUE

\* C32: execute_mission_workflow on an unknown mission id, an unregistered
\* vehicle id or a mission that fails validation fails at the first step:
\* until it returns, no step after the first is started and no vehicle or
\* mission is changed, and it returns a failure caused by the step with an
\* empty rollback report and the workflow rolled_back.
C32_InvalidMissionFailsAtFirstStep ==
    [][\A t \in DOMAIN tasks :
          (tasks[t].pc # "done" /\ FailsValidation(t)) =>
              /\ vehicles' = vehicles
              /\ missions' = missions
              /\ tasks'[t].started \in {<<>>, <<1>>}
              /\ Returns(t) =>
                    /\ tasks'[t].result = "failure"
                    /\ tasks'[t].cause = "step"
                    /\ tasks'[t].i = 1
                    /\ tasks'[t].completed = <<>>
                    /\ tasks'[t].invoked = <<>>
                    /\ tasks'[t].report = <<>>
                    /\ workflows'[tasks[t].wid].status = "rolled_back"]_vars

\* C32 witness: a workflow on a registered vehicle and a registered mission
\* that does not pass validation has returned its failure, the mission
\* unassigned.
C32_Witness ==
    \E t \in DOMAIN tasks :
        /\ tasks[t].pc = "done"
        /\ tasks[t].result = "failure"
        /\ tasks[t].report = <<>>
        /\ workflows[tasks[t].wid].mission \in DOMAIN missions
        /\ workflows[tasks[t].wid].vehicle \in DOMAIN vehicles
        /\ missions[workflows[tasks[t].wid].mission].profile = "invalid"
        /\ missions[workflows[tasks[t].wid].mission].vehicle_id = 0
        /\ workflows[tasks[t].wid].status = "rolled_back"

\* call t has completed its validate step on a mission that passes
\* validate_mission and is the call the event loop is running
Validated(t, v) ==
    /\ active = t
    /\ workflows[tasks[t].wid].vehicle = v
    /\ workflows[tasks[t].wid].mission \in DOMAIN missions
    /\ Valid(missions[workflows[tasks[t].wid].mission].profile)
    /\ \E n \in DOMAIN tasks[t].completed : tasks[t].completed[n] = 1

\* C33: validation precedes arming: the status of a vehicle becomes armed
\* or flying only in a mission workflow whose validate step has completed
\* in the same call, on a mission that validate_mission finds valid (no
\* critical breach, no waypoint above the vehicle's max altitude, enough
\* battery).
C33_ValidationPrecedesArming ==
    [][\A v \in DOMAIN vehicles :
          (vehicles'[v].status \in {"armed", "flying"}
              /\ vehicles'[v].status # vehicles[v].status) =>
                  \E t \in DOMAIN tasks : Validated(t, v)]_vars

\* C33 witness: the running mission workflow has validated its mission and
\* armed its vehicle.
C33_Witness ==
    \E t \in DOMAIN tasks :
        /\ active = t
        /\ tasks[t].completed = <<1, 2, 3, 4>>
        /\ missions[workflows[tasks[t].wid].mission].status = "validated"
        /\ vehicles[workflows[tasks[t].wid].vehicle].status = "armed"

\* C34: assignment is a consistent link whenever no mission workflow is in
\* the middle of a step: mission m names vehicle v exactly when vehicle v
\* names mission m, also after two missions were executed with one vehicle
\* or one mission with two vehicles.
C34_AssignmentIsConsistentLink ==
    active = 0 =>
        \A m \in DOMAIN missions, v \in DOMAIN vehicles :
            missions[m].vehicle_id = v <=> vehicles[v].mission_id = m

\* missions.<m>.vehicle_id in the State Store, 0 when the entry is missing
StoredVehicleOf(st, m) ==
    IF m \in DOMAIN st.missions THEN st.missions[m].vehicle_id ELSE 0

\* C39: when execute_mission_workflow returns on a registered mission and a
\* registered vehicle, with success or rolled back, the State Store agrees
\* with the registries: missions.<id>.vehicle_id is the vehicle the mission
\* is assigned to (none after the rollback of the assignment),
\* vehicles.<id>.status is the status of the vehicle, and
\* workflows.<id>.status is the status of the workflow.
C39_StoreMirrorsRegistries ==
    [][\A t \in DOMAIN tasks :
          (Returns(t) /\ OnRegistered(t)) =>
              LET w == tasks[t].wid
                  m == workflows[w].mission
                  v == workflows[w].vehicle
              IN  /\ StoredVehicleOf(state', m) = missions'[m].vehicle_id
                  /\ state'.vehicles[v].status = vehicles'[v].status
                  /\ state'.workflows[w].status = workflows'[w].status]_vars

\* publish of event id returned: the event is in the history
InHistory(id) == \E n \in DOMAIN event_history : event_history[n] = id

\* event id was taken from the queue once and offered to a handler
Offered(id) ==
    /\ Cardinality({n \in DOMAIN dispatched : dispatched[n] = id}) = 1
    /\ delivered[id] # <<>>

\* C35: under fair scheduling of the dispatch loop of a started router that
\* is not stopped, every event whose publish returned, before or after
\* start(), is eventually taken from the queue and offered to its handlers,
\* and no event is taken twice.
C35_EveryEventEventuallyDispatched ==
    /\ \A id \in 1..MaxFairEvents : (running /\ InHistory(id)) ~> Offered(id)
    /\ [](\A id \in DOMAIN events :
             Cardinality({n \in DOMAIN dispatched : dispatched[n] = id}) <= 1)

\* the waypoints n and n + 1 of one row go up in longitude in an even row
\* and down in an odd row
RowsAlternate(w, first, step) ==
    \A n \in 1..(Len(w) - 1) :
        w[n].lat = w[n + 1].lat =>
            IF ((w[n].lat - first) \div step) % 2 = 0
            THEN w[n].lon < w[n + 1].lon
            ELSE w[n].lon > w[n + 1].lon

\* C40: for every area of interest, every grid spacing > 0 and every overlap
\* from 0 to 1, the grid generation of create_survey_mission comes to its
\* end, and the waypoints it then returns are numbered 0, 1, ..., n-1, go up
\* in longitude in the even rows and down in the odd rows, and lie in the
\* bounding box of the polygon.
C40_SurveyGridTerminates ==
    /\ <>(ret.pc = "done")
    /\ [](ret.pc = "done" =>
            LET w == ret.waypoints
                step == effective_spacing(ret.spacing, ret.overlap)
            IN  /\ \A n \in DOMAIN w : w[n].sequence = n - 1
                /\ w # <<>> => RowsAlternate(w, min_lat(ret.polygon), step)
                /\ \A n \in DOMAIN w :
                      /\ min_lat(ret.polygon) <= w[n].lat
                      /\ w[n].lat <= max_lat(ret.polygon)
                      /\ min_lon(ret.polygon) <= w[n].lon
                      /\ w[n].lon <= max_lon(ret.polygon))

====
